---- MODULE Spec2Model ----
(***************************************************************************)
(* ry-pg-utils: the connection registry and the managed session of        *)
(* ry_pg_utils/connect.py, as a state machine.                             *)
(*                                                                         *)
(* The two module-level dicts ENGINE and THREAD_SAFE_SESSION_FACTORY are   *)
(* insertion-ordered Python dicts: each is a sequence of [k, v] items.     *)
(* A scoped_session keeps one Session per thread in its registry;          *)
(* ManagedSession is a generator-based context manager, so one call is     *)
(* an entry step, the caller's body, and an exit step.                     *)
(***************************************************************************)
EXTENDS Integers, Sequences, FiniteSets, TLC

VARIABLES
    ENGINE,                       \* connect.ENGINE: dict db -> Engine
    THREAD_SAFE_SESSION_FACTORY,  \* connect.THREAD_SAFE_SESSION_FACTORY: dict db -> scoped_session
    raise_on_use_before_init,     \* config.pg_config.raise_on_use_before_init
    thread_local,                 \* connect._thread_local.backend_id, per thread
    disposed,                     \* engines on which Engine.dispose() was called
    registry,                     \* scoped_session.registry: factory -> thread -> Session
    pending,                      \* Session -> rows added and not yet committed
    committed,                    \* rows committed to the database
    released,                     \* Sessions closed by scoped_session.remove()
    row,                          \* the rows made by the bodies: backend_id, flushed
    pc,                           \* per thread, the line a registry call is at, and what init_engine returned
    triggers,                     \* the notify triggers on the table, by trigger name
    listeners,                    \* the NotificationListener objects and their fields
    delivered,                    \* the callback invocations so far, in the order they were made
    joining,                      \* per thread, the listener whose loop it waits for in stop()
    nextListener, nextCallback, nextNote,   \* identities handed out
    subscribed,                   \* per database, the listener that subscribe_to_notifications runs
    scope,                        \* per thread, the subscription it is inside of
    environ,                      \* os.environ: the POSTGRES_ variables
    pg_config,                    \* config.pg_config, raise_on_use_before_init apart
    stack,                        \* per thread, the open ManagedSession generators
    nextEngine, nextFactory, nextSession, nextWrite,   \* object identities handed out
    calls,                        \* how many calls were made so far
    last                          \* the call that was made last and what it did

\* The state of connect.py, the call counter and the call record apart.
connectVars == <<ENGINE, THREAD_SAFE_SESSION_FACTORY, raise_on_use_before_init,
                 thread_local, disposed, registry, pending, committed, released, row, pc,
                 stack, nextEngine, nextFactory, nextSession, nextWrite>>

\* The state of the notify triggers and of the notification listeners.
triggerVars == <<triggers>>

listenerVars == <<listeners, delivered, joining, nextListener, nextCallback, nextNote>>

subscribeVars == <<subscribed, scope>>

notifyVars == <<triggerVars, listenerVars, subscribeVars>>

\* The environment and the configuration that config.py makes of it.
configVars == <<environ, pg_config>>

vars == <<connectVars, notifyVars, configVars, calls, last>>

(***************************************************************************)
(* Bounds of the model.                                                    *)
(***************************************************************************)
MaxEngines == 2
MaxFactories == 2
MaxSessions == 3
MaxWrites == 2
MaxDepth == 2
MaxCalls == 7
MaxTagCalls == 6            \* the call budget of the two-thread specification
MaxCommitCalls == 6         \* the call budget of the failing-commit specification
MaxDatabaseCalls == 5       \* the call budget of the specification with init_database
MaxTriggerCalls == 4        \* the call budget of the specification of the triggers
MaxListeners == 1
MaxCallbacks == 2
MaxNotes == 2
MaxListenerCalls == 7       \* the call budget of the specification of the listeners
MaxFairCalls == 6           \* the call budget of the specification with a fair loop
MaxSubscribeCalls == 6      \* the call budget of the specification of the subscriptions
MaxConfigCalls == 4         \* the call budget of the specification of the configuration
MaxFactoryRaceCalls == 3    \* the call budget of the specification of the factory race

DBs == {"d1", "d2"}
Threads == {"t1", "t2"}
MainThread == {"t1"}      \* the callers of the sequential specification

NoneDb == "None"            \* db=None
NoTag == "None"             \* backend_id=None
NoSession == 0              \* the None that the tolerant branch yields

EmptyTag == ""              \* backend_id=""
NoRow == [backend_id |-> NoTag, flushed |-> FALSE]

NotCalling == [at |-> "idle", db |-> NoneDb, got |-> 0, gotDb |-> NoneDb, factory |-> 0]

ListenerIds == 1..MaxListeners
CallbackIds == 1..MaxCallbacks
NoteIds == 1..MaxNotes
Channels == {"test_table", "other"}

NoData == [c \in {} |-> 0]
NoNote == [id |-> 0, channel |-> "-", ok |-> FALSE, table |-> "-", action |-> "-",
           data |-> NoData]

\* A thread that is in no subscription.
NoScope == [db |-> NoneDb, listener |-> 0, callback |-> 0]

\* A NotificationListener that was not made yet.
NoListener ==
    [state |-> "None", conn |-> "none", loop |-> "none", stop_flag |-> FALSE,
     callbacks |-> [c \in Channels |-> <<>>], inbox |-> <<>>,
     note |-> NoNote, todo |-> <<>>, done |-> {}]

EngineIds == 1..MaxEngines
FactoryIds == 1..MaxFactories
SessionIds == 1..MaxSessions
WriteIds == 1..MaxWrites

(***************************************************************************)
(* Python dict, insertion-ordered.                                         *)
(***************************************************************************)
Keys(d) == {d[i].k : i \in DOMAIN d}

Get(d, key) == d[CHOOSE i \in DOMAIN d : d[i].k = key].v

IsItemNot(item, key) == item.k # key

Del(d, key) == SelectSeq(d, LAMBDA item : IsItemNot(item, key))

Put(d, key, val) ==
    IF key \in Keys(d)
    THEN [i \in DOMAIN d |-> IF d[i].k = key THEN [k |-> key, v |-> val] ELSE d[i]]
    ELSE Append(d, [k |-> key, v |-> val])

EmptyDict == <<>>

(***************************************************************************)
(* config.pg_config                                                        *)
(***************************************************************************)
DefaultRaiseOnUseBeforeInit == TRUE
DefaultBackendId == "host_ip"

(***************************************************************************)
(* The record of the last call.                                            *)
(***************************************************************************)
NoCall == [op |-> "init", t |-> "-", db |-> NoneDb, arg |-> "-", raised |-> "none",
           result |-> 0, did |-> {}, writes |-> {}]

Count == calls < MaxCalls /\ calls' = calls + 1

Call(op, t, db, arg, raised, result, did, writes) ==
    [op |-> op, t |-> t, db |-> db, arg |-> arg, raised |-> raised,
     result |-> result, did |-> did, writes |-> writes]

\* config.py: the environment and the configuration made of it.
EnvNames == {"POSTGRES_HOST", "POSTGRES_PORT", "POSTGRES_DB", "POSTGRES_USER",
             "POSTGRES_PASSWORD"}
EnvValues == {"env-host", "5432"}
Unset == "None"              \* os.getenv of a variable that is not set

NoEnviron == [n \in EnvNames |-> Unset]

\* What a .env file can hold.
DotEnvs == {NoEnviron, [NoEnviron EXCEPT !["POSTGRES_HOST"] = "env-host"],
            [NoEnviron EXCEPT !["POSTGRES_PORT"] = "5432"]}

getenv(env, n) == env[n]

\* dotenv.load_dotenv(): the variables of the file that the environment
\* does not have are added to it.
load_dotenv(env, file) == [n \in EnvNames |-> IF env[n] # Unset THEN env[n] ELSE file[n]]

DefaultDoPublishDb == FALSE
DefaultUseLocalDbOnly == TRUE
DefaultAddBackendToAll == TRUE
DefaultAddBackendToTables == TRUE

Config(env) ==
    [postgres_host |-> getenv(env, "POSTGRES_HOST"),
     postgres_port |-> getenv(env, "POSTGRES_PORT"),
     postgres_db |-> getenv(env, "POSTGRES_DB"),
     postgres_user |-> getenv(env, "POSTGRES_USER"),
     postgres_password |-> getenv(env, "POSTGRES_PASSWORD"),
     do_publish_db |-> DefaultDoPublishDb,
     use_local_db_only |-> DefaultUseLocalDbOnly,
     backend_id |-> DefaultBackendId,
     add_backend_to_all |-> DefaultAddBackendToAll,
     add_backend_to_tables |-> DefaultAddBackendToTables]

Init ==
    /\ ENGINE = EmptyDict
    /\ THREAD_SAFE_SESSION_FACTORY = EmptyDict
    /\ raise_on_use_before_init = DefaultRaiseOnUseBeforeInit
    /\ thread_local = [t \in Threads |-> NoTag]
    /\ disposed = {}
    /\ registry = [f \in FactoryIds |-> [t \in Threads |-> NoSession]]
    /\ pending = [s \in SessionIds |-> {}]
    /\ committed = {}
    /\ released = {}
    /\ row = [w \in WriteIds |-> NoRow]
    /\ pc = [t \in Threads |-> NotCalling]
    /\ triggers = {}
    /\ listeners = [l \in ListenerIds |-> NoListener]
    /\ delivered = <<>>
    /\ joining = [t \in Threads |-> 0]
    /\ nextListener = 0
    /\ nextCallback = 0
    /\ nextNote = 0
    /\ subscribed = [db \in DBs |-> 0]
    /\ scope = [t \in Threads |-> NoScope]
    /\ environ = NoEnviron
    /\ pg_config = Config(NoEnviron)
    /\ stack = [t \in Threads |-> <<>>]
    /\ nextEngine = 0
    /\ nextFactory = 0
    /\ nextSession = 0
    /\ nextWrite = 0
    /\ calls = 0
    /\ last = NoCall

(***************************************************************************)
(* init_engine: the pool options a caller does not pass get the defaults.  *)
(***************************************************************************)
PoolRecycle == 3600
PoolSize == 5
MaxOverflow == 10

PoolDefaults ==
    [pool_recycle |-> PoolRecycle, pool_pre_ping |-> TRUE,
     pool_size |-> PoolSize, max_overflow |-> MaxOverflow]

SetDefaults(kwargs) ==
    [key \in DOMAIN kwargs \cup DOMAIN PoolDefaults |->
        IF key \in DOMAIN kwargs THEN kwargs[key] ELSE PoolDefaults[key]]

\* What init_engine is called with: a uri and keyword options.
EngineArgs ==
    {[uri |-> "pg://a", kwargs |-> [echo |-> FALSE]],
     [uri |-> "pg://b", kwargs |-> [pool_size |-> 1]]}

\* init_engine without its membership test: every call creates an engine.
NeedsCreateAlways(db) == TRUE

NeedsCreate(db) == db \notin Keys(ENGINE)

init_engine(uri, db, kwargs) ==
    /\ IF NeedsCreate(db)
       THEN /\ nextEngine < MaxEngines
            /\ nextEngine' = nextEngine + 1
            /\ ENGINE' = Put(ENGINE, db,
                   [id |-> nextEngine + 1, uri |-> uri, opts |-> SetDefaults(kwargs)])
            /\ last' = Call("init_engine", "-", db, uri, "none", nextEngine + 1,
                            {"create_engine"}, {})
       ELSE /\ UNCHANGED <<ENGINE, nextEngine>>
            /\ last' = Call("init_engine", "-", db, uri, "none", Get(ENGINE, db).id, {}, {})
    /\ UNCHANGED <<THREAD_SAFE_SESSION_FACTORY, raise_on_use_before_init, thread_local,
                   disposed, registry, pending, committed, released, stack,
                   nextFactory, nextSession, nextWrite, row, pc, notifyVars, configVars>>

(***************************************************************************)
(* get_engine(db): ENGINE[db], a KeyError when db is not registered.       *)
(***************************************************************************)
get_engine(db) ==
    IF db \in Keys(ENGINE)
    THEN [raised |-> "none", value |-> Get(ENGINE, db).id]
    ELSE [raised |-> "KeyError", value |-> 0]

\* clear_db that forgets to empty THREAD_SAFE_SESSION_FACTORY.
clear_db_engines_only ==
    /\ ENGINE' = EmptyDict
    /\ last' = Call("clear_db", "-", NoneDb, "-", "none", 0, {}, {})
    /\ UNCHANGED <<THREAD_SAFE_SESSION_FACTORY, raise_on_use_before_init, thread_local,
                   disposed, registry, pending, committed, released, stack,
                   nextEngine, nextFactory, nextSession, nextWrite, row, pc, notifyVars, configVars>>

clear_db ==
    /\ ENGINE' = EmptyDict
    /\ THREAD_SAFE_SESSION_FACTORY' = EmptyDict
    /\ last' = Call("clear_db", "-", NoneDb, "-", "none", 0, {}, {})
    /\ UNCHANGED <<raise_on_use_before_init, thread_local, disposed, registry, pending,
                   committed, released, stack,
                   nextEngine, nextFactory, nextSession, nextWrite, row, pc, notifyVars, configVars>>

\* Whether THREAD_SAFE_SESSION_FACTORY.pop(db, None) finds an item to remove.
FactoryPopped(db) ==
    IF db \in Keys(THREAD_SAFE_SESSION_FACTORY) THEN {"pop_factory"} ELSE {}

\* close_engine without its membership test: del ENGINE[db] on a missing key.
close_engine_unguarded(db) ==
    /\ IF db \in Keys(ENGINE)
       THEN /\ disposed' = disposed \cup {Get(ENGINE, db).id}
            /\ ENGINE' = Del(ENGINE, db)
            /\ THREAD_SAFE_SESSION_FACTORY' = Del(THREAD_SAFE_SESSION_FACTORY, db)
            /\ last' = Call("close_engine", "-", db, "-", "none", Get(ENGINE, db).id,
                            {"dispose"} \cup FactoryPopped(db), {})
       ELSE /\ UNCHANGED <<disposed, ENGINE, THREAD_SAFE_SESSION_FACTORY>>
            /\ last' = Call("close_engine", "-", db, "-", "KeyError", 0, {}, {})
    /\ UNCHANGED <<raise_on_use_before_init, thread_local, registry, pending,
                   committed, released, stack,
                   nextEngine, nextFactory, nextSession, nextWrite, row, pc, notifyVars, configVars>>

\* close_engine that forgets the session factory of the name.
close_engine_keeps_factory(db) ==
    /\ IF db \in Keys(ENGINE)
       THEN /\ disposed' = disposed \cup {Get(ENGINE, db).id}
            /\ ENGINE' = Del(ENGINE, db)
            /\ last' = Call("close_engine", "-", db, "-", "none", Get(ENGINE, db).id,
                            {"dispose"}, {})
       ELSE /\ UNCHANGED <<disposed, ENGINE>>
            /\ last' = Call("close_engine", "-", db, "-", "none", 0, {}, {})
    /\ UNCHANGED <<THREAD_SAFE_SESSION_FACTORY, raise_on_use_before_init, thread_local,
                   registry, pending, committed, released, stack,
                   nextEngine, nextFactory, nextSession, nextWrite, row, pc, notifyVars, configVars>>

close_engine(db) ==
    /\ IF db \in Keys(ENGINE)
       THEN /\ disposed' = disposed \cup {Get(ENGINE, db).id}
            /\ ENGINE' = Del(ENGINE, db)
            /\ last' = Call("close_engine", "-", db, "-", "none", Get(ENGINE, db).id,
                            {"dispose"} \cup FactoryPopped(db), {})
       ELSE /\ UNCHANGED <<disposed, ENGINE>>
            /\ last' = Call("close_engine", "-", db, "-", "none", 0, FactoryPopped(db), {})
    /\ THREAD_SAFE_SESSION_FACTORY' = Del(THREAD_SAFE_SESSION_FACTORY, db)
    /\ UNCHANGED <<raise_on_use_before_init, thread_local, registry, pending,
                   committed, released, stack,
                   nextEngine, nextFactory, nextSession, nextWrite, row, pc, notifyVars, configVars>>

\* _init_session_factory without its membership test: every call makes a factory.
NeedsFactoryAlways(db) == TRUE

NeedsFactory(db) == db \notin Keys(THREAD_SAFE_SESSION_FACTORY)

init_session_factory_raises(db) == db \notin Keys(ENGINE)

init_session_factory(db) ==
    /\ IF init_session_factory_raises(db)
       THEN /\ UNCHANGED <<THREAD_SAFE_SESSION_FACTORY, nextFactory>>
            /\ last' = Call("_init_session_factory", "-", db, "-", "ValueError", 0, {}, {})
       ELSE IF NeedsFactory(db)
       THEN /\ nextFactory < MaxFactories
            /\ nextFactory' = nextFactory + 1
            /\ THREAD_SAFE_SESSION_FACTORY' =
                   Put(THREAD_SAFE_SESSION_FACTORY, db,
                       [id |-> nextFactory + 1, bind |-> Get(ENGINE, db).id])
            /\ last' = Call("_init_session_factory", "-", db, "-", "none", nextFactory + 1,
                            {"scoped_session"}, {})
       ELSE /\ UNCHANGED <<THREAD_SAFE_SESSION_FACTORY, nextFactory>>
            /\ last' = Call("_init_session_factory", "-", db, "-", "none",
                            Get(THREAD_SAFE_SESSION_FACTORY, db).id, {}, {})
    /\ UNCHANGED <<ENGINE, raise_on_use_before_init, thread_local, disposed, registry,
                   pending, committed, released, stack,
                   nextEngine, nextSession, nextWrite, row, pc, notifyVars, configVars>>

(***************************************************************************)
(* init_database: init_engine, then create_all and _init_session_factory   *)
(* inside a try block whose except clause is for OperationalError.         *)
(* outcome is how Base.metadata.create_all(bind=engine) ends.              *)
(***************************************************************************)
CreateAllOutcomes == {"ok", "OperationalError", "Exception"}

\* The uri of a call with the default user, password, host and port.
InitDatabaseUri(db) == "postgresql://localhost:5432/" \o db

NoKwargs == <<>>

\* init_database whose except clause is for every exception.
SwallowsAll(exc) == exc # "ok"

\* except OperationalError: log and continue.
Swallows(exc) == exc = "OperationalError"

init_database(db, outcome) ==
    LET create == NeedsCreate(db)
        engine == IF create THEN nextEngine + 1 ELSE Get(ENGINE, db).id
        made == IF create THEN {"create_engine"} ELSE {}
        factory == outcome = "ok" /\ NeedsFactory(db)
    IN /\ create => nextEngine < MaxEngines
       /\ factory => nextFactory < MaxFactories
       /\ nextEngine' = IF create THEN nextEngine + 1 ELSE nextEngine
       /\ ENGINE' = IF create
                    THEN Put(ENGINE, db, [id |-> engine, uri |-> InitDatabaseUri(db),
                                          opts |-> SetDefaults(NoKwargs)])
                    ELSE ENGINE
       /\ nextFactory' = IF factory THEN nextFactory + 1 ELSE nextFactory
       /\ THREAD_SAFE_SESSION_FACTORY' =
              IF factory
              THEN Put(THREAD_SAFE_SESSION_FACTORY, db,
                       [id |-> nextFactory + 1, bind |-> engine])
              ELSE THREAD_SAFE_SESSION_FACTORY
       /\ last' = IF outcome = "ok"
                  THEN Call("init_database", "-", db, outcome, "none", engine,
                            made \cup {"create_all"}
                                 \cup (IF factory THEN {"scoped_session"} ELSE {}), {})
                  ELSE IF Swallows(outcome)
                  THEN Call("init_database", "-", db, outcome, "none", engine,
                            made \cup {"log"}, {})
                  ELSE Call("init_database", "-", db, outcome, outcome, engine, made, {})
       /\ UNCHANGED <<raise_on_use_before_init, thread_local, disposed, registry,
                      pending, committed, released, stack, nextSession, nextWrite, row, pc, notifyVars, configVars>>

is_session_factory_initialized == THREAD_SAFE_SESSION_FACTORY # EmptyDict

\* is_database_initialized that looks the name up in ENGINE.
is_database_initialized_engine(db) == db \in Keys(ENGINE)

is_database_initialized(db) == db \in Keys(THREAD_SAFE_SESSION_FACTORY)

\* The tests set config.pg_config.raise_on_use_before_init at run time.
set_raise_on_use_before_init(b) ==
    /\ raise_on_use_before_init' = b
    /\ last' = Call("set_config", "-", NoneDb, "-", "none", 0, {}, {})
    /\ UNCHANGED <<ENGINE, THREAD_SAFE_SESSION_FACTORY, thread_local, disposed, registry,
                   pending, committed, released, stack,
                   nextEngine, nextFactory, nextSession, nextWrite, row, pc, notifyVars, configVars>>

(***************************************************************************)
(* ManagedSession, entry: up to the yield.                                 *)
(***************************************************************************)
\* db=None resolved to the last key of the dict.
ResolveDbLast(db) ==
    IF db = NoneDb
    THEN IF THREAD_SAFE_SESSION_FACTORY = EmptyDict
         THEN NoneDb
         ELSE THREAD_SAFE_SESSION_FACTORY[Len(THREAD_SAFE_SESSION_FACTORY)].k
    ELSE db

ResolveDb(db) ==
    IF db = NoneDb
    THEN IF THREAD_SAFE_SESSION_FACTORY = EmptyDict
         THEN NoneDb
         ELSE THREAD_SAFE_SESSION_FACTORY[1].k
    ELSE db

HasFactory(db) == db # NoneDb /\ db \in Keys(THREAD_SAFE_SESSION_FACTORY)

\* ManagedSession that ignores the configured tolerance.
RaiseAlways == TRUE

RaiseOnUseBeforeInit == raise_on_use_before_init

\* What ManagedSession(db) does when db has no session factory.
ManagedSession_raises(db) == ~HasFactory(ResolveDb(db)) /\ RaiseOnUseBeforeInit

ManagedSession_yields_none(db) == ~HasFactory(ResolveDb(db)) /\ ~RaiseOnUseBeforeInit

Frame(db, session) == [db |-> db, session |-> session, writes |-> {}]

Top(t) == stack[t][Len(stack[t])]

Pop(t) == [stack EXCEPT ![t] = SubSeq(stack[t], 1, Len(stack[t]) - 1)]

\* A backend id that is set for every thread at once.
set_backend_id_global(t, backend_id) == [u \in Threads |-> backend_id]

set_backend_id(t, backend_id) == [thread_local EXCEPT ![t] = backend_id]

get_backend_id(t) == thread_local[t]

\* if backend_id is not None: the empty string counts as a backend id.
TruthyUnlessNone(backend_id) == backend_id # NoTag

\* if backend_id: neither None nor the empty string.
Truthy(backend_id) == backend_id \notin {NoTag, EmptyTag}

\* One Session for all the threads.
ScopeShared(t) == "t1"

\* scoped_session keeps its Sessions in a thread-local registry.
Scope(t) == t

\* A before_flush listener that stamps every instance.
NeedsTagAlways(inst) == TRUE

\* getattr(inst, "backend_id", None) is None
NeedsTag(inst) == inst.backend_id = NoTag

\* A before_flush listener that goes over every instance it can reach.
receive_before_flush_every_instance(t, new) ==
    LET backend_id == get_backend_id(t) IN
    IF ~Truthy(backend_id)
    THEN row
    ELSE [w \in WriteIds |->
             IF NeedsTag(row[w])
             THEN [row[w] EXCEPT !.backend_id = backend_id]
             ELSE row[w]]

\* receive_before_flush in thread t, new being session.dirty | session.new.
receive_before_flush(t, new) ==
    LET backend_id == get_backend_id(t) IN
    IF ~Truthy(backend_id)
    THEN row
    ELSE [w \in WriteIds |->
             IF w \in new /\ NeedsTag(row[w])
             THEN [row[w] EXCEPT !.backend_id = backend_id]
             ELSE row[w]]

\* The rows of Session s that a flush writes: added and not flushed yet.
New(s) == {w \in pending[s] : ~row[w].flushed}

\* Session.flush() of s in thread t: the listener, then the rows are written.
Flush(t, s) ==
    LET stamped == receive_before_flush(t, New(s)) IN
    [w \in WriteIds |->
        IF w \in New(s) THEN [stamped[w] EXCEPT !.flushed = TRUE] ELSE stamped[w]]

\* A ManagedSession that sets the backend id before it looks the factory up.
EnterMissingAfterSetBackendId(t, db, dbArg, backend_id) ==
    IF ManagedSession_raises(dbArg)
    THEN /\ last' = Call("enter", t, db, dbArg, "ValueError", NoSession, {}, {})
         /\ UNCHANGED <<ENGINE, THREAD_SAFE_SESSION_FACTORY, raise_on_use_before_init,
                        thread_local, disposed, registry, pending, committed,
                        released, stack,
                        nextEngine, nextFactory, nextSession, nextWrite, row, pc, notifyVars, configVars>>
    ELSE /\ Len(stack[t]) < MaxDepth
         /\ stack' = [stack EXCEPT ![t] = Append(@, Frame(db, NoSession))]
         /\ last' = Call("enter", t, db, dbArg, "none", NoSession, {"yield"}, {})
         /\ thread_local' = IF Truthy(backend_id)
                            THEN set_backend_id(t, backend_id)
                            ELSE thread_local
         /\ UNCHANGED <<ENGINE, THREAD_SAFE_SESSION_FACTORY, raise_on_use_before_init,
                        disposed, registry, pending, committed,
                        released,
                        nextEngine, nextFactory, nextSession, nextWrite, row, pc, notifyVars, configVars>>

\* The branch of lines 125-130: db has no session factory. The backend_id
\* argument of ManagedSession is not looked at on this branch.
EnterMissing(t, db, dbArg, backend_id) ==
    IF ManagedSession_raises(dbArg)
    THEN /\ last' = Call("enter", t, db, dbArg, "ValueError", NoSession, {}, {})
         /\ UNCHANGED <<ENGINE, THREAD_SAFE_SESSION_FACTORY, raise_on_use_before_init,
                        thread_local, disposed, registry, pending, committed,
                        released, stack,
                        nextEngine, nextFactory, nextSession, nextWrite, row, pc, notifyVars, configVars>>
    ELSE /\ Len(stack[t]) < MaxDepth
         /\ stack' = [stack EXCEPT ![t] = Append(@, Frame(db, NoSession))]
         /\ last' = Call("enter", t, db, dbArg, "none", NoSession, {"yield"}, {})
         /\ UNCHANGED <<ENGINE, THREAD_SAFE_SESSION_FACTORY, raise_on_use_before_init,
                        thread_local, disposed, registry, pending, committed,
                        released,
                        nextEngine, nextFactory, nextSession, nextWrite, row, pc, notifyVars, configVars>>

\* Lines 132-138: the factory's Session of the calling thread, the tag, the yield.
EnterSession(t, db, dbArg, backend_id) ==
    LET f == Get(THREAD_SAFE_SESSION_FACTORY, db).id
        fresh == registry[f][Scope(t)] = NoSession
        session == IF fresh THEN nextSession + 1 ELSE registry[f][Scope(t)]
    IN /\ Len(stack[t]) < MaxDepth
       /\ fresh => nextSession < MaxSessions
       /\ nextSession' = IF fresh THEN nextSession + 1 ELSE nextSession
       /\ registry' = [registry EXCEPT ![f][Scope(t)] = session]
       /\ thread_local' = IF Truthy(backend_id)
                          THEN set_backend_id(t, backend_id)
                          ELSE thread_local
       /\ stack' = [stack EXCEPT ![t] = Append(@, Frame(db, session))]
       /\ last' = Call("enter", t, db, dbArg, "none", session,
                       (IF fresh THEN {"yield", "Session"} ELSE {"yield"})
                          \cup (IF Truthy(backend_id) THEN {"set_backend_id"} ELSE {}), {})
       /\ UNCHANGED <<ENGINE, THREAD_SAFE_SESSION_FACTORY, raise_on_use_before_init,
                      disposed, pending, committed, released,
                      nextEngine, nextFactory, nextWrite, row, pc, notifyVars, configVars>>

\* ManagedSession that makes the session factory of a registered name on first use.
ManagedSession_enter_lazy(t, dbArg, backend_id) ==
    LET db == ResolveDb(dbArg) IN
    IF db \in Keys(ENGINE) /\ ~HasFactory(db)
    THEN /\ Len(stack[t]) < MaxDepth
         /\ nextFactory < MaxFactories
         /\ nextSession < MaxSessions
         /\ nextFactory' = nextFactory + 1
         /\ nextSession' = nextSession + 1
         /\ THREAD_SAFE_SESSION_FACTORY' =
                Put(THREAD_SAFE_SESSION_FACTORY, db,
                    [id |-> nextFactory + 1, bind |-> Get(ENGINE, db).id])
         /\ registry' = [registry EXCEPT ![nextFactory + 1][Scope(t)] = nextSession + 1]
         /\ thread_local' = IF Truthy(backend_id)
                            THEN set_backend_id(t, backend_id)
                            ELSE thread_local
         /\ stack' = [stack EXCEPT ![t] = Append(@, Frame(db, nextSession + 1))]
         /\ last' = Call("enter", t, db, dbArg, "none", nextSession + 1,
                         {"yield", "Session", "scoped_session"}
                            \cup (IF Truthy(backend_id) THEN {"set_backend_id"} ELSE {}), {})
         /\ UNCHANGED <<ENGINE, raise_on_use_before_init, disposed, pending, committed,
                        released, nextEngine, nextWrite, row, pc, notifyVars, configVars>>
    ELSE IF ~HasFactory(db)
         THEN EnterMissing(t, db, dbArg, backend_id)
         ELSE EnterSession(t, db, dbArg, backend_id)

ManagedSession_enter(t, dbArg, backend_id) ==
    LET db == ResolveDb(dbArg) IN
    IF ManagedSession_raises(dbArg) \/ ManagedSession_yields_none(dbArg)
    THEN EnterMissing(t, db, dbArg, backend_id)
    ELSE EnterSession(t, db, dbArg, backend_id)

(***************************************************************************)
(* The caller's body adds a row to the session it was given.               *)
(***************************************************************************)
session_add(t, backend_id) ==
    /\ Len(stack[t]) > 0
    /\ Top(t).session # NoSession
    /\ nextWrite < MaxWrites
    /\ nextWrite' = nextWrite + 1
    /\ row' = [row EXCEPT ![nextWrite + 1] = [backend_id |-> backend_id, flushed |-> FALSE]]
    /\ pending' = [pending EXCEPT ![Top(t).session] = @ \cup {nextWrite + 1}]
    /\ stack' = [stack EXCEPT ![t][Len(stack[t])].writes = @ \cup {nextWrite + 1}]
    /\ last' = Call("add", t, Top(t).db, backend_id, "none", Top(t).session, {},
                    {nextWrite + 1})
    /\ UNCHANGED <<ENGINE, THREAD_SAFE_SESSION_FACTORY, raise_on_use_before_init,
                   thread_local, disposed, registry, committed, released,
                   nextEngine, nextFactory, nextSession, pc, notifyVars, configVars>>

\* The body flushes its session: session.flush(), or the autoflush of a query.
session_flush(t) ==
    /\ Len(stack[t]) > 0
    /\ Top(t).session # NoSession
    /\ row' = Flush(t, Top(t).session)
    /\ last' = Call("flush", t, Top(t).db, "-", "none", Top(t).session, {"flush"},
                    New(Top(t).session))
    /\ UNCHANGED <<ENGINE, THREAD_SAFE_SESSION_FACTORY, raise_on_use_before_init,
                   thread_local, disposed, registry, pending, committed, released, stack,
                   nextEngine, nextFactory, nextSession, nextWrite, pc, notifyVars, configVars>>

\* set_backend_id called by the application.
call_set_backend_id(t, backend_id) ==
    /\ thread_local' = set_backend_id(t, backend_id)
    /\ last' = Call("set_backend_id", t, NoneDb, backend_id, "none", 0, {}, {})
    /\ UNCHANGED <<ENGINE, THREAD_SAFE_SESSION_FACTORY, raise_on_use_before_init,
                   disposed, registry, pending, committed, released, row, stack,
                   nextEngine, nextFactory, nextSession, nextWrite, pc, notifyVars, configVars>>

(***************************************************************************)
(* ManagedSession, exit: from the yield to the end of the finally block.   *)
(* how is the way the body ended: "return", or the exception it raised.    *)
(***************************************************************************)
BodyEnds == {"return", "OperationalError", "Exception"}

\* session.commit() of line 139 raising after the body returned: what it raises.
CommitRaises == {"commit raises OperationalError", "commit raises Exception"}

\* Except clauses that roll back and do not re-raise what the commit raised.
RaisedByBodyOnly(how) ==
    IF how \in {"OperationalError", "Exception"} THEN how ELSE "none"

\* What the caller gets: lines 143 and 146 re-raise what the try block raised,
\* be it the body's error or the commit's.
Raised(how) ==
    CASE how = "return" -> "none"
      [] how = "commit raises OperationalError" -> "OperationalError"
      [] how = "commit raises Exception" -> "Exception"
      [] OTHER -> how

\* ManagedSession that goes back to the yield after a connection error.
RetriesOnOperationalError(how) == how = "OperationalError"

\* Lines 137-146 have no loop: the generator yields once, and the except
\* clauses end in raise.
Retries(how) == FALSE

ExitRetry(t, how) ==
    LET fr == Top(t) IN
    /\ pending' = [pending EXCEPT ![fr.session] = {}]
    /\ last' = Call("exit", t, fr.db, how, "none", fr.session,
                    {"rollback", "retry"}, fr.writes)
    /\ UNCHANGED <<registry, committed, released, row, stack>>

\* A finally block whose error does not replace the error of the body.
ReleaseRaisesBodyError(how) == IF how = "return" THEN "KeyError" ELSE how

\* Line 151 with db not in THREAD_SAFE_SESSION_FACTORY: the KeyError of the
\* finally block is what the caller gets, whatever the body raised.
ReleaseRaises(how) == "KeyError"

\* A commit of the rows that this ManagedSession's own body added only.
CommitsOwnWrites(s, writes) == pending[s] \cap writes

\* Line 139: session.commit() commits every pending row of the Session,
\* whichever body added it.
Commits(s, writes) == pending[s]

ExitOnce(t, how) ==
    /\ stack' = Pop(t)
    /\ LET fr == Top(t)
           s == fr.session
       IN IF s = NoSession
          THEN /\ how \notin CommitRaises
               /\ last' = Call("exit", t, fr.db, how, Raised(how), NoSession, {}, fr.writes)
               /\ UNCHANGED <<registry, pending, committed, released, row>>
          ELSE LET ended == [pending EXCEPT ![s] = {}]
                   end == IF how = "return"
                          THEN {"commit"}
                          ELSE IF how \in CommitRaises
                               THEN {"commit raises", "rollback"}
                               ELSE {"rollback"}
               IN /\ row' = IF how = "return" THEN Flush(t, s) ELSE row
                  /\ committed' = IF how = "return"
                                  THEN committed \cup Commits(s, fr.writes)
                                  ELSE committed
                  /\ IF fr.db \in Keys(THREAD_SAFE_SESSION_FACTORY)
                     THEN LET f == Get(THREAD_SAFE_SESSION_FACTORY, fr.db).id
                              cur == registry[f][Scope(t)]
                          IN /\ IF cur # NoSession
                                THEN /\ pending' = [ended EXCEPT ![cur] = {}]
                                     /\ released' = released \cup {cur}
                                ELSE /\ pending' = ended
                                     /\ UNCHANGED released
                             /\ registry' = [registry EXCEPT ![f][Scope(t)] = NoSession]
                             /\ last' = Call("exit", t, fr.db, how, Raised(how), s,
                                             end \cup {"remove"}, fr.writes)
                     ELSE /\ pending' = ended
                          /\ UNCHANGED <<registry, released>>
                          /\ last' = Call("exit", t, fr.db, how, ReleaseRaises(how), s,
                                          end, fr.writes)

ManagedSession_exit(t, how) ==
    /\ Len(stack[t]) > 0
    /\ IF Retries(how) /\ Top(t).session # NoSession
       THEN ExitRetry(t, how)
       ELSE ExitOnce(t, how)
    /\ UNCHANGED <<ENGINE, THREAD_SAFE_SESSION_FACTORY, raise_on_use_before_init,
                   thread_local, disposed,
                   nextEngine, nextFactory, nextSession, nextWrite, pc, notifyVars, configVars>>

Next ==
    \/ \E a \in EngineArgs, db \in DBs : init_engine(a.uri, db, a.kwargs) /\ Count
    \/ clear_db /\ Count
    \/ \E db \in DBs : close_engine(db) /\ Count
    \/ \E db \in DBs : init_session_factory(db) /\ Count
    \/ \E b \in BOOLEAN : set_raise_on_use_before_init(b) /\ Count
    \/ \E t \in MainThread, db \in DBs \cup {NoneDb}, tag \in {NoTag, DefaultBackendId} :
           ManagedSession_enter(t, db, tag) /\ Count
    \/ \E t \in MainThread : session_add(t, NoTag) /\ Count
    \/ \E t \in MainThread, how \in BodyEnds : ManagedSession_exit(t, how) /\ Count

Spec == Init /\ [][Next]_vars

(***************************************************************************)
(* Two threads on one database: the backend id of each thread, the rows    *)
(* the bodies add with and without a backend_id of their own, the flushes. *)
(***************************************************************************)
TagDb == "d1"
SessionTags == {NoTag, EmptyTag, "B1", "B2"}   \* ManagedSession(db, backend_id=...)
RowTags == {NoTag, EmptyTag, "B2"}        \* Row(backend_id=...)
TagBodyEnds == {"return", "Exception"}

CountTags == calls < MaxTagCalls /\ calls' = calls + 1

NextTags ==
    \/ init_database(TagDb, "ok") /\ CountTags
    \/ \E t \in Threads, tag \in SessionTags :
           ManagedSession_enter(t, TagDb, tag) /\ CountTags
    \/ \E t \in Threads, tag \in RowTags : session_add(t, tag) /\ CountTags
    \/ \E t \in Threads : session_flush(t) /\ CountTags
    \/ \E t \in Threads, how \in TagBodyEnds : ManagedSession_exit(t, how) /\ CountTags
    \/ \E t \in Threads : call_set_backend_id(t, EmptyTag) /\ CountTags

SpecTags == Init /\ [][NextTags]_vars

\* The calls of a database whose commit can fail.
CountCommit == calls < MaxCommitCalls /\ calls' = calls + 1

NextCommit ==
    \/ init_database(TagDb, "ok") /\ CountCommit
    \/ \E t \in Threads, tag \in {NoTag, "B1"} :
           ManagedSession_enter(t, TagDb, tag) /\ CountCommit
    \/ \E t \in Threads : session_add(t, NoTag) /\ CountCommit
    \/ \E t \in Threads, how \in BodyEnds \cup CommitRaises :
           ManagedSession_exit(t, how) /\ CountCommit

SpecCommit == Init /\ [][NextCommit]_vars

(***************************************************************************)
(* init_engine and close_engine line by line, for threads that call them   *)
(* at the same time: a thread can be switched out between any two lines.   *)
(***************************************************************************)
RaceArgs == CHOOSE a \in EngineArgs : a.uri = "pg://a"

At(t, at, db) == [pc EXCEPT ![t] = [@ EXCEPT !.at = at, !.db = db]]

\* Line 42: if db not in ENGINE.
init_engine_test(t, db) ==
    /\ pc[t].at = "idle"
    /\ pc' = At(t, IF NeedsCreate(db) THEN "init_engine:51" ELSE "init_engine:52", db)
    /\ UNCHANGED <<ENGINE, THREAD_SAFE_SESSION_FACTORY, raise_on_use_before_init,
                   thread_local, disposed, registry, pending, committed, released, row,
                   stack, nextEngine, nextFactory, nextSession, nextWrite, last, notifyVars, configVars>>

\* Lines 43-51: ENGINE[db] = create_engine(uri, **kwargs).
init_engine_create(t) ==
    /\ pc[t].at = "init_engine:51"
    /\ nextEngine < MaxEngines
    /\ nextEngine' = nextEngine + 1
    /\ ENGINE' = Put(ENGINE, pc[t].db,
                     [id |-> nextEngine + 1, uri |-> RaceArgs.uri,
                      opts |-> SetDefaults(RaceArgs.kwargs)])
    /\ pc' = At(t, "init_engine:52", pc[t].db)
    /\ UNCHANGED <<THREAD_SAFE_SESSION_FACTORY, raise_on_use_before_init,
                   thread_local, disposed, registry, pending, committed, released, row,
                   stack, nextFactory, nextSession, nextWrite, last, notifyVars, configVars>>

\* Line 52: return ENGINE[db].
init_engine_return(t) ==
    /\ pc[t].at = "init_engine:52"
    /\ LET r == get_engine(pc[t].db)
       IN /\ pc' = [pc EXCEPT ![t] = [at |-> "idle", db |-> NoneDb,
                                      got |-> r.value, gotDb |-> pc[t].db,
                                      factory |-> 0]]
          /\ last' = Call("init_engine", t, pc[t].db, RaceArgs.uri, r.raised, r.value,
                          {}, {})
    /\ UNCHANGED <<ENGINE, THREAD_SAFE_SESSION_FACTORY, raise_on_use_before_init,
                   thread_local, disposed, registry, pending, committed, released, row,
                   stack, nextEngine, nextFactory, nextSession, nextWrite, notifyVars, configVars>>

\* Line 65: if db in ENGINE.
close_engine_test(t, db) ==
    /\ pc[t].at = "idle"
    /\ pc' = At(t, IF db \in Keys(ENGINE) THEN "close_engine:66" ELSE "close_engine:68", db)
    /\ UNCHANGED <<ENGINE, THREAD_SAFE_SESSION_FACTORY, raise_on_use_before_init,
                   thread_local, disposed, registry, pending, committed, released, row,
                   stack, nextEngine, nextFactory, nextSession, nextWrite, last, notifyVars, configVars>>

\* Line 66: ENGINE[db].dispose().
close_engine_dispose(t) ==
    /\ pc[t].at = "close_engine:66"
    /\ IF pc[t].db \in Keys(ENGINE)
       THEN /\ disposed' = disposed \cup {Get(ENGINE, pc[t].db).id}
            /\ pc' = At(t, "close_engine:67", pc[t].db)
            /\ UNCHANGED last
       ELSE /\ pc' = At(t, "idle", NoneDb)
            /\ last' = Call("close_engine", t, pc[t].db, "-", "KeyError", 0, {}, {})
            /\ UNCHANGED disposed
    /\ UNCHANGED <<ENGINE, THREAD_SAFE_SESSION_FACTORY, raise_on_use_before_init,
                   thread_local, registry, pending, committed, released, row,
                   stack, nextEngine, nextFactory, nextSession, nextWrite, notifyVars, configVars>>

\* Line 67: del ENGINE[db].
close_engine_del(t) ==
    /\ pc[t].at = "close_engine:67"
    /\ IF pc[t].db \in Keys(ENGINE)
       THEN /\ ENGINE' = Del(ENGINE, pc[t].db)
            /\ pc' = At(t, "close_engine:68", pc[t].db)
            /\ UNCHANGED last
       ELSE /\ pc' = At(t, "idle", NoneDb)
            /\ last' = Call("close_engine", t, pc[t].db, "-", "KeyError", 0, {"dispose"}, {})
            /\ UNCHANGED ENGINE
    /\ UNCHANGED <<THREAD_SAFE_SESSION_FACTORY, raise_on_use_before_init,
                   thread_local, disposed, registry, pending, committed, released, row,
                   stack, nextEngine, nextFactory, nextSession, nextWrite, notifyVars, configVars>>

\* Line 68: THREAD_SAFE_SESSION_FACTORY.pop(db, None).
close_engine_pop(t) ==
    /\ pc[t].at = "close_engine:68"
    /\ THREAD_SAFE_SESSION_FACTORY' = Del(THREAD_SAFE_SESSION_FACTORY, pc[t].db)
    /\ pc' = At(t, "idle", NoneDb)
    /\ last' = Call("close_engine", t, pc[t].db, "-", "none", 0, FactoryPopped(pc[t].db), {})
    /\ UNCHANGED <<ENGINE, raise_on_use_before_init,
                   thread_local, disposed, registry, pending, committed, released, row,
                   stack, nextEngine, nextFactory, nextSession, nextWrite, notifyVars, configVars>>

NextRace ==
    \/ \E t \in Threads, db \in DBs : init_engine_test(t, db) /\ Count
    \/ \E t \in Threads : init_engine_create(t) /\ Count
    \/ \E t \in Threads : init_engine_return(t) /\ Count
    \/ \E t \in Threads, db \in DBs : close_engine_test(t, db) /\ Count
    \/ \E t \in Threads : close_engine_dispose(t) /\ Count
    \/ \E t \in Threads : close_engine_del(t) /\ Count
    \/ \E t \in Threads : close_engine_pop(t) /\ Count

SpecRace == Init /\ [][NextRace]_vars

(***************************************************************************)
(* _init_session_factory line by line, for a thread that calls it while    *)
(* another thread calls close_engine.  pc[t].factory is the engine that    *)
(* the local variable factory is bound to.                                 *)
(***************************************************************************)
Idle(t) == [pc EXCEPT ![t] = [@ EXCEPT !.at = "idle", !.db = NoneDb, !.factory = 0]]

\* Lines 74-75: if db not in ENGINE: raise ValueError.
init_session_factory_test_engine(t, db) ==
    /\ pc[t].at = "idle"
    /\ IF init_session_factory_raises(db)
       THEN /\ last' = Call("_init_session_factory", t, db, "-", "ValueError", 0, {}, {})
            /\ UNCHANGED pc
       ELSE /\ pc' = At(t, "_init_session_factory:76", db)
            /\ UNCHANGED last
    /\ UNCHANGED <<ENGINE, THREAD_SAFE_SESSION_FACTORY, raise_on_use_before_init,
                   thread_local, disposed, registry, pending, committed, released, row,
                   stack, nextEngine, nextFactory, nextSession, nextWrite, notifyVars, configVars>>

\* Line 76: if db not in THREAD_SAFE_SESSION_FACTORY.
init_session_factory_test_factory(t) ==
    /\ pc[t].at = "_init_session_factory:76"
    /\ pc' = At(t, IF NeedsFactory(pc[t].db) THEN "_init_session_factory:77"
                   ELSE "_init_session_factory:79", pc[t].db)
    /\ UNCHANGED <<ENGINE, THREAD_SAFE_SESSION_FACTORY, raise_on_use_before_init,
                   thread_local, disposed, registry, pending, committed, released, row,
                   stack, nextEngine, nextFactory, nextSession, nextWrite, last, notifyVars, configVars>>

\* Line 77: factory = sessionmaker(bind=ENGINE[db]).
init_session_factory_sessionmaker(t) ==
    /\ pc[t].at = "_init_session_factory:77"
    /\ LET r == get_engine(pc[t].db)
       IN IF r.raised = "none"
          THEN /\ pc' = [pc EXCEPT ![t] = [@ EXCEPT !.at = "_init_session_factory:78",
                                                    !.factory = r.value]]
               /\ UNCHANGED last
          ELSE /\ pc' = Idle(t)
               /\ last' = Call("_init_session_factory", t, pc[t].db, "-", r.raised, 0, {}, {})
    /\ UNCHANGED <<ENGINE, THREAD_SAFE_SESSION_FACTORY, raise_on_use_before_init,
                   thread_local, disposed, registry, pending, committed, released, row,
                   stack, nextEngine, nextFactory, nextSession, nextWrite, notifyVars, configVars>>

\* Line 78: THREAD_SAFE_SESSION_FACTORY[db] = scoped_session(factory).
init_session_factory_store(t) ==
    /\ pc[t].at = "_init_session_factory:78"
    /\ nextFactory < MaxFactories
    /\ nextFactory' = nextFactory + 1
    /\ THREAD_SAFE_SESSION_FACTORY' =
           Put(THREAD_SAFE_SESSION_FACTORY, pc[t].db,
               [id |-> nextFactory + 1, bind |-> pc[t].factory])
    /\ pc' = At(t, "_init_session_factory:79", pc[t].db)
    /\ UNCHANGED <<ENGINE, raise_on_use_before_init,
                   thread_local, disposed, registry, pending, committed, released, row,
                   stack, nextEngine, nextSession, nextWrite, last, notifyVars, configVars>>

\* Line 79: return THREAD_SAFE_SESSION_FACTORY[db].
init_session_factory_return(t) ==
    /\ pc[t].at = "_init_session_factory:79"
    /\ pc' = Idle(t)
    /\ last' = IF HasFactory(pc[t].db)
               THEN Call("_init_session_factory", t, pc[t].db, "-", "none",
                         Get(THREAD_SAFE_SESSION_FACTORY, pc[t].db).id,
                         IF pc[t].factory # 0 THEN {"scoped_session"} ELSE {}, {})
               ELSE Call("_init_session_factory", t, pc[t].db, "-", "KeyError", 0,
                         IF pc[t].factory # 0 THEN {"scoped_session"} ELSE {}, {})
    /\ UNCHANGED <<ENGINE, THREAD_SAFE_SESSION_FACTORY, raise_on_use_before_init,
                   thread_local, disposed, registry, pending, committed, released, row,
                   stack, nextEngine, nextFactory, nextSession, nextWrite, notifyVars, configVars>>

CountFactoryRace == calls < MaxFactoryRaceCalls /\ calls' = calls + 1

\* The calls are counted where they start; init_engine is taken whole.
NextFactoryRace ==
    \/ \E db \in DBs : init_engine(RaceArgs.uri, db, RaceArgs.kwargs) /\ CountFactoryRace
    \/ \E t \in Threads, db \in DBs : init_session_factory_test_engine(t, db) /\ CountFactoryRace
    \/ \E t \in Threads : init_session_factory_test_factory(t) /\ UNCHANGED calls
    \/ \E t \in Threads : init_session_factory_sessionmaker(t) /\ UNCHANGED calls
    \/ \E t \in Threads : init_session_factory_store(t) /\ UNCHANGED calls
    \/ \E t \in Threads : init_session_factory_return(t) /\ UNCHANGED calls
    \/ \E t \in Threads, db \in DBs : close_engine_test(t, db) /\ CountFactoryRace
    \/ \E t \in Threads : close_engine_dispose(t) /\ UNCHANGED calls
    \/ \E t \in Threads : close_engine_del(t) /\ UNCHANGED calls
    \/ \E t \in Threads : close_engine_pop(t) /\ UNCHANGED calls

SpecFactoryRace == Init /\ [][NextFactoryRace]_vars

(***************************************************************************)
(* notify_trigger: create_notify_trigger and drop_notify_trigger.  A       *)
(* trigger is on a table, for one event, and sends the requested columns   *)
(* of the affected row.                                                    *)
(***************************************************************************)
Table == "test_table"
TableColumns == {"id", "name", "value"}

ValidEvents == {"INSERT", "UPDATE", "DELETE"}
NoColumns == {"*"}                \* columns=None: all the columns of the table

\* What the callers pass as events and as columns.
EventArgs == SUBSET (ValidEvents \cup {"INVALID_EVENT"})
ColumnArgs == {NoColumns, {"name"}, {"non_existent_column"}, {"name", "non_existent_column"}}

Lower(event) ==
    CASE event = "INSERT" -> "insert"
      [] event = "UPDATE" -> "update"
      [] event = "DELETE" -> "delete"
      [] OTHER -> event

TriggerName(table, event) == table \o "_notify_trigger_" \o Lower(event)

Columns(columns) == IF columns = NoColumns THEN TableColumns ELSE columns

Trigger(table, event, columns) ==
    [name |-> TriggerName(table, event), table |-> table, event |-> event,
     columns |-> Columns(columns)]

\* The triggers of trs that are on a table, and those the table has now.
On(trs, table) == {tr \in trs : tr.table = table}

TriggersOn(table) == On(triggers, table)

InvalidEvents(events) == events \ ValidEvents

InvalidColumns(columns) == Columns(columns) \ TableColumns

Rejected(events, columns) ==
    IF InvalidEvents(events) # {} THEN "InvalidEvent"
    ELSE IF InvalidColumns(columns) # {} THEN "InvalidColumn"
    ELSE "none"

\* A create_notify_trigger that validates each event as it comes to it.
InstalledPartial(events, columns) == events \cap ValidEvents

\* The events whose trigger a call installs: none when the call is rejected.
Installed(events, columns) == IF Rejected(events, columns) # "none" THEN {} ELSE events

\* CREATE TRIGGER without a DROP TRIGGER IF EXISTS before it.
DroppedNone(names) == {}

\* DROP TRIGGER IF EXISTS name ON table, for every name that is to be created.
Dropped(names) == {tr \in triggers : tr.name \in names}

create_notify_trigger(table, events, columns) ==
    LET made == {Trigger(table, e, columns) : e \in Installed(events, columns)}
        names == {tr.name : tr \in made}
        kept == triggers \ Dropped(names)
        clash == \E tr \in kept : tr.name \in names
        raised == IF Rejected(events, columns) # "none" THEN Rejected(events, columns)
                  ELSE IF clash THEN "DuplicateObject"
                  ELSE "none"
        ddl == {"DROP " \o tr.name : tr \in Dropped(names)} \cup {"CREATE " \o n : n \in names}
    IN /\ triggers' = IF clash THEN triggers ELSE kept \cup made
       /\ last' = [op |-> "create_notify_trigger", t |-> "-", db |-> table, arg |-> "-",
                   raised |-> raised, result |-> 0,
                   did |-> IF clash THEN {} ELSE ddl, writes |-> {},
                   events |-> events, columns |-> columns]
       /\ UNCHANGED <<connectVars, configVars, listenerVars, subscribeVars>>

\* A drop_notify_trigger that drops the insert trigger only.
DropNamesInsert(table) == {TriggerName(table, "INSERT")}

\* The three trigger names of a table.
DropNames(table) == {TriggerName(table, e) : e \in ValidEvents}

drop_notify_trigger(table) ==
    /\ triggers' = {tr \in triggers : tr.table # table \/ tr.name \notin DropNames(table)}
    /\ last' = Call("drop_notify_trigger", "-", table, "-", "none", 0,
                    {"DROP " \o tr.name : tr \in triggers \ triggers'}, {})
    /\ UNCHANGED <<connectVars, configVars, listenerVars, subscribeVars>>

CountTrigger == calls < MaxTriggerCalls /\ calls' = calls + 1

NextTrigger ==
    \/ \E events \in EventArgs, columns \in ColumnArgs :
           create_notify_trigger(Table, events, columns) /\ CountTrigger
    \/ drop_notify_trigger(Table) /\ CountTrigger

SpecTrigger == Init /\ [][NextTrigger]_vars

(***************************************************************************)
(* notify_trigger: NotificationListener.  A listener is made, gets         *)
(* callbacks per channel, is started (a raw connection and a background    *)
(* loop) and stopped.  The loop takes the notifications of its connection  *)
(* one at a time, decodes the payload and calls the callbacks of the       *)
(* channel one after the other.                                            *)
(***************************************************************************)
\* The callbacks of a sequence of registrations.
Registrations(cbs) == {cbs[i] : i \in DOMAIN cbs}

TestRow == [id |-> 1, name |-> "test", value |-> 100]

Restrict(r, columns) == [c \in columns |-> r[c]]

NotificationListener ==
    /\ nextListener < MaxListeners
    /\ nextListener' = nextListener + 1
    /\ listeners' = [listeners EXCEPT ![nextListener + 1].state = "Created"]
    /\ last' = Call("NotificationListener", "-", NoneDb, "-", "none", nextListener + 1, {}, {})
    /\ UNCHANGED <<connectVars, configVars, triggerVars, subscribeVars, delivered, joining, nextCallback, nextNote>>

add_callback(l, channel) ==
    /\ listeners[l].state # "None"
    /\ nextCallback < MaxCallbacks
    /\ nextCallback' = nextCallback + 1
    /\ listeners' = [listeners EXCEPT ![l].callbacks[channel] = Append(@, nextCallback + 1)]
    /\ last' = Call("add_callback", "-", channel, "-", "none", nextCallback + 1, {}, {})
    /\ UNCHANGED <<connectVars, configVars, triggerVars, subscribeVars, delivered, joining, nextListener, nextNote>>

\* A start() that refuses a listening listener only.
StartableUnlessListening(l) == listeners[l].state # "Listening"

\* start() is valid from Created only.
Startable(l) == listeners[l].state = "Created"

start(l) ==
    /\ listeners[l].state # "None"
    /\ IF Startable(l)
       THEN /\ listeners' = [listeners EXCEPT ![l].state = "Listening",
                                              ![l].conn = "open",
                                              ![l].loop = "running",
                                              ![l].stop_flag = FALSE]
            /\ last' = Call("start", "-", NoneDb, "-", "none", l, {"connect", "loop"}, {})
       ELSE /\ UNCHANGED listeners
            /\ last' = Call("start", "-", NoneDb, "-", "AlreadyStarted", l, {}, {})
    /\ UNCHANGED <<connectVars, configVars, triggerVars, subscribeVars, delivered, joining,
                   nextListener, nextCallback, nextNote>>

\* stop(), the call: a listening listener becomes Stopped, its loop is told
\* to stop and the caller waits for it; on any other listener stop() returns
\* at once.
stop_call(t, l) ==
    /\ joining[t] = 0
    /\ listeners[l].state # "None"
    /\ IF listeners[l].state = "Listening"
       THEN /\ listeners' = [listeners EXCEPT ![l].state = "Stopped",
                                              ![l].stop_flag = TRUE]
            /\ joining' = [joining EXCEPT ![t] = l]
            /\ last' = Call("stop_call", t, NoneDb, "-", "none", l, {"stop_flag"}, {})
       ELSE /\ UNCHANGED <<listeners, joining>>
            /\ last' = Call("stop", t, NoneDb, "-", "none", l, {}, {})
    /\ UNCHANGED <<connectVars, configVars, triggerVars, subscribeVars, delivered, nextListener, nextCallback, nextNote>>

\* The loop of the listener has exited: thread.join() returns.
Joined(l) == listeners[l].loop = "exited"

\* stop(), the return: after the loop has exited the raw connection is closed.
stop_return(t) ==
    /\ joining[t] # 0
    /\ Joined(joining[t])
    /\ listeners' = [listeners EXCEPT ![joining[t]].conn = "closed"]
    /\ joining' = [joining EXCEPT ![t] = 0]
    /\ last' = Call("stop", t, NoneDb, "-", "none", joining[t], {"join", "close"}, {})
    /\ UNCHANGED <<connectVars, configVars, triggerVars, subscribeVars, delivered, nextListener, nextCallback,
                   nextNote, calls>>

\* A loop that wakes up when a notification arrives and not otherwise.
WakesOnNotification(l) == listeners[l].inbox # <<>>

\* The loop wakes up on a notification or when its poll interval is over.
Wakes(l) == TRUE

\* The loop finds that it was told to stop.
loop_exit(l) ==
    /\ listeners[l].loop = "running"
    /\ listeners[l].note = NoNote
    /\ listeners[l].stop_flag
    /\ Wakes(l)
    /\ listeners' = [listeners EXCEPT ![l].loop = "exited"]
    /\ last' = Call("loop_exit", "loop", NoneDb, "-", "none", l, {}, {})
    /\ UNCHANGED <<connectVars, configVars, triggerVars, subscribeVars, delivered, joining,
                   nextListener, nextCallback, nextNote, calls>>

\* A loop that ends when a payload does not decode.
LoopDiesOnDecodeFailure == "exited"

\* A payload that does not decode is logged and dropped.
LoopAfterDecodeFailure == "running"

\* The callbacks of a channel, last registered first.
RECURSIVE Reversed(_)
Reversed(cbs) == IF cbs = <<>> THEN <<>> ELSE Append(Reversed(Tail(cbs)), Head(cbs))

\* The callbacks of a channel in the order they are called: as registered.
InOrder(cbs) == cbs

\* The loop takes the oldest notification of its connection and decodes it.
loop_take(l) ==
    /\ listeners[l].loop = "running"
    /\ listeners[l].note = NoNote
    /\ listeners[l].inbox # <<>>
    /\ LET n == Head(listeners[l].inbox)
           todo == InOrder(listeners[l].callbacks[n.channel])
       IN IF ~n.ok
          THEN /\ listeners' = [listeners EXCEPT ![l].inbox = Tail(@),
                                                 ![l].done = @ \cup {n.id},
                                                 ![l].loop = LoopAfterDecodeFailure]
               /\ last' = Call("loop_take", "loop", n.channel, "-", "none", l,
                               {"log", "drop"}, {n.id})
          ELSE /\ listeners' =
                     [listeners EXCEPT ![l].inbox = Tail(@),
                                       ![l].note = IF todo = <<>> THEN NoNote ELSE n,
                                       ![l].todo = todo,
                                       ![l].done = IF todo = <<>> THEN @ \cup {n.id} ELSE @]
               /\ last' = Call("loop_take", "loop", n.channel, "-", "none", l,
                               {"decode"}, {n.id})
    /\ UNCHANGED <<connectVars, configVars, triggerVars, subscribeVars, delivered, joining,
                   nextListener, nextCallback, nextNote, calls>>

\* The loop calls the next callback of the notification it has taken.
loop_invoke(l) ==
    /\ listeners[l].loop = "running"
    /\ listeners[l].note # NoNote
    /\ LET n == listeners[l].note
           cb == Head(listeners[l].todo)
           rest == Tail(listeners[l].todo)
       IN /\ delivered' = Append(delivered,
                                 [listener |-> l, callback |-> cb, note |-> n.id,
                                  notification |-> [table |-> n.table, action |-> n.action,
                                                    data |-> n.data]])
          /\ listeners' = [listeners EXCEPT ![l].todo = rest,
                                            ![l].note = IF rest = <<>> THEN NoNote ELSE n,
                                            ![l].done = IF rest = <<>> THEN @ \cup {n.id} ELSE @]
          /\ last' = Call("loop_invoke", "loop", n.channel, "-", "none", l,
                          {"callback"}, {n.id})
    /\ UNCHANGED <<connectVars, configVars, triggerVars, subscribeVars, joining,
                   nextListener, nextCallback, nextNote, calls>>

\* The listener has a connection that listens on the channel.
Listens(l, channel) ==
    listeners[l].conn = "open" /\ listeners[l].callbacks[channel] # <<>>

\* The notifications are queued on every connection that listens on their channel.
Queue(notes) ==
    [l \in ListenerIds |->
        IF notes # <<>> /\ Listens(l, notes[1].channel)
        THEN [listeners[l] EXCEPT !.inbox = @ \o notes]
        ELSE listeners[l]]

\* Triggers that fire on every action.
FiresAlways(tr, action) == TRUE

Fires(tr, action) == tr.event = action

\* The events of the triggers of a table in the order of the trigger names.
EventsByName == <<"DELETE", "INSERT", "UPDATE">>

Firing(table, action) ==
    SelectSeq(EventsByName,
              LAMBDA e : \E tr \in TriggersOn(table) : tr.event = e /\ Fires(tr, action))

NotifyOf(table, action, r, k) ==
    LET tr == CHOOSE tr \in TriggersOn(table) : tr.event = Firing(table, action)[k]
    IN [id |-> nextNote + k, channel |-> table, ok |-> TRUE, table |-> table,
        action |-> action, data |-> Restrict(r, tr.columns)]

\* The commit of INSERT INTO table: each insert trigger sends the row on the
\* channel named after the table.
db_insert(table, r) ==
    LET notes == [k \in 1..Len(Firing(table, "INSERT")) |-> NotifyOf(table, "INSERT", r, k)]
    IN /\ nextNote + Len(notes) <= MaxNotes
       /\ nextNote' = nextNote + Len(notes)
       /\ listeners' = Queue(notes)
       /\ last' = Call("insert", "-", table, "-", "none", Len(notes), {}, {})
       /\ UNCHANGED <<connectVars, configVars, triggerVars, subscribeVars, delivered, joining,
                      nextListener, nextCallback>>

\* NOTIFY channel with a payload that is not the JSON of a row.
raw_notify(channel) ==
    LET n == [id |-> nextNote + 1, channel |-> channel, ok |-> FALSE, table |-> "-",
              action |-> "-", data |-> NoData]
    IN /\ nextNote < MaxNotes
       /\ nextNote' = nextNote + 1
       /\ listeners' = Queue(<<n>>)
       /\ last' = Call("notify", "-", channel, "-", "none", 1, {}, {})
       /\ UNCHANGED <<connectVars, configVars, triggerVars, subscribeVars, delivered, joining,
                      nextListener, nextCallback>>

CountListener == calls < MaxListenerCalls /\ calls' = calls + 1

\* The triggers the listener specification is run with.
ListenerEvents == {{"INSERT"}, {"INSERT", "DELETE"}}

loop(l) == loop_take(l) \/ loop_invoke(l) \/ loop_exit(l)

NextListener ==
    \/ \E events \in ListenerEvents :
           create_notify_trigger(Table, events, NoColumns) /\ CountListener
    \/ NotificationListener /\ CountListener
    \/ \E l \in ListenerIds, channel \in Channels : add_callback(l, channel) /\ CountListener
    \/ \E l \in ListenerIds : start(l) /\ CountListener
    \/ \E t \in Threads, l \in ListenerIds : stop_call(t, l) /\ CountListener
    \/ \E t \in Threads : stop_return(t)
    \/ db_insert(Table, TestRow) /\ CountListener
    \/ \E channel \in Channels : raw_notify(channel) /\ CountListener
    \/ \E l \in ListenerIds : loop_take(l)
    \/ \E l \in ListenerIds : loop_invoke(l)
    \/ \E l \in ListenerIds : loop_exit(l)

SpecListener == Init /\ [][NextListener]_vars

CountFair == calls < MaxFairCalls /\ calls' = calls + 1

NextListenerFair ==
    \/ \E events \in ListenerEvents :
           create_notify_trigger(Table, events, NoColumns) /\ CountFair
    \/ NotificationListener /\ CountFair
    \/ \E l \in ListenerIds, channel \in Channels : add_callback(l, channel) /\ CountFair
    \/ \E l \in ListenerIds : start(l) /\ CountFair
    \/ \E t \in Threads, l \in ListenerIds : stop_call(t, l) /\ CountFair
    \/ \E t \in Threads : stop_return(t)
    \/ db_insert(Table, TestRow) /\ CountFair
    \/ \E channel \in Channels : raw_notify(channel) /\ CountFair
    \/ \E l \in ListenerIds : loop_take(l)
    \/ \E l \in ListenerIds : loop_invoke(l)
    \/ \E l \in ListenerIds : loop_exit(l)

\* The loop of a listener keeps running and a stop() that can return does.
SpecListenerFair ==
    /\ Init /\ [][NextListenerFair]_vars
    /\ \A l \in ListenerIds : WF_vars(loop(l))
    /\ \A t \in Threads : WF_vars(stop_return(t))

(***************************************************************************)
(* notify_trigger: subscribe_to_notifications, a context manager.  On      *)
(* entry it creates the triggers of the table, makes and starts the        *)
(* listener of the database unless one is running, and adds the callback;  *)
(* on exit it removes the callback and stops the listener when no callback *)
(* is left.                                                                *)
(***************************************************************************)
Without(cbs, cb) == SelectSeq(cbs, LAMBDA c : c # cb)

\* The callbacks of a listener on all its channels.
CallbacksOf(lis) == UNION {Registrations(lis.callbacks[c]) : c \in Channels}

\* A subscription that stops the listener whenever it ends.
IsLastAlways(lis) == TRUE

\* The listener has no callback left.
IsLast(lis) == CallbacksOf(lis) = {}

subscribe_enter(t, db) ==
    LET made == {Trigger(Table, e, NoColumns) : e \in ValidEvents}
        running == subscribed[db] # 0
        l == IF running THEN subscribed[db] ELSE nextListener + 1
        cb == nextCallback + 1
        lis == IF running THEN listeners[l]
               ELSE [NoListener EXCEPT !.state = "Listening", !.conn = "open",
                                       !.loop = "running"]
    IN /\ scope[t] = NoScope
       /\ joining[t] = 0
       /\ nextCallback < MaxCallbacks
       /\ running \/ nextListener < MaxListeners
       /\ triggers' = (triggers \ Dropped({tr.name : tr \in made})) \cup made
       /\ nextListener' = IF running THEN nextListener ELSE l
       /\ nextCallback' = cb
       /\ subscribed' = [subscribed EXCEPT ![db] = l]
       /\ listeners' = [listeners EXCEPT ![l] =
                           [lis EXCEPT !.callbacks[Table] = Append(@, cb)]]
       /\ scope' = [scope EXCEPT ![t] = [db |-> db, listener |-> l, callback |-> cb]]
       /\ last' = Call("subscribe_enter", t, db, "-", "none", l,
                       IF running THEN {"add_callback"}
                       ELSE {"NotificationListener", "start", "add_callback"}, {cb})
       /\ UNCHANGED <<connectVars, configVars, delivered, joining, nextNote>>

\* The end of the with block, by its last line or by an exception of the body.
Exits == {"none", "Exception"}

subscribe_exit(t, how) ==
    LET l == scope[t].listener
        cb == scope[t].callback
        lis == [listeners[l] EXCEPT !.callbacks[Table] = Without(@, cb)]
    IN /\ scope[t] # NoScope
       /\ scope' = [scope EXCEPT ![t] = NoScope]
       /\ IF IsLast(lis)
          THEN /\ listeners' = [listeners EXCEPT ![l] = [lis EXCEPT !.state = "Stopped",
                                                                    !.stop_flag = TRUE]]
               /\ joining' = [joining EXCEPT ![t] = l]
               /\ subscribed' = [subscribed EXCEPT ![scope[t].db] = 0]
               /\ last' = Call("subscribe_exit", t, scope[t].db, "-", how, l,
                               {"remove_callback", "stop"}, {cb})
          ELSE /\ listeners' = [listeners EXCEPT ![l] = lis]
               /\ UNCHANGED <<joining, subscribed>>
               /\ last' = Call("subscribe_exit", t, scope[t].db, "-", how, l,
                               {"remove_callback"}, {cb})
       /\ UNCHANGED <<connectVars, configVars, triggerVars, delivered, nextListener, nextCallback, nextNote>>

CountSubscribe == calls < MaxSubscribeCalls /\ calls' = calls + 1

NextSubscribe ==
    \/ \E t \in Threads, db \in DBs : subscribe_enter(t, db) /\ CountSubscribe
    \/ \E t \in Threads, how \in Exits : subscribe_exit(t, how) /\ CountSubscribe
    \/ db_insert(Table, TestRow) /\ CountSubscribe
    \/ \E t \in Threads : stop_return(t)
    \/ \E l \in ListenerIds : loop_take(l)
    \/ \E l \in ListenerIds : loop_invoke(l)
    \/ \E l \in ListenerIds : loop_exit(l)

SpecSubscribe == Init /\ [][NextSubscribe]_vars

(***************************************************************************)
(* config.py: at import the module loads the .env file into the            *)
(* environment and makes pg_config of the POSTGRES_ variables and of       *)
(* literals.                                                               *)
(***************************************************************************)
\* The tests set and clear the environment before they load the configuration.
setenv(n, v) ==
    /\ environ[n] # v
    /\ environ' = [environ EXCEPT ![n] = v]
    /\ last' = Call("setenv", "-", NoneDb, n, "none", 0, {}, {})
    /\ UNCHANGED <<connectVars, notifyVars, pg_config>>

clear_environ ==
    /\ environ # NoEnviron
    /\ environ' = NoEnviron
    /\ last' = Call("clear_environ", "-", NoneDb, "-", "none", 0, {}, {})
    /\ UNCHANGED <<connectVars, notifyVars, pg_config>>

\* The module body of config.py is run, with some .env file.
load_config(file) ==
    /\ environ' = load_dotenv(environ, file)
    /\ pg_config' = Config(environ')
    /\ raise_on_use_before_init' = DefaultRaiseOnUseBeforeInit
    /\ last' = Call("load_config", "-", NoneDb, "-", "none", 0,
                    {n \in EnvNames : environ[n] # Unset}, {})
    /\ UNCHANGED <<ENGINE, THREAD_SAFE_SESSION_FACTORY, thread_local, disposed, registry,
                   pending, committed, released, stack,
                   nextEngine, nextFactory, nextSession, nextWrite, row, pc, notifyVars>>

CountConfig == calls < MaxConfigCalls /\ calls' = calls + 1

NextConfig ==
    \/ \E n \in EnvNames, v \in EnvValues : setenv(n, v) /\ CountConfig
    \/ clear_environ /\ CountConfig
    \/ \E file \in DotEnvs : load_config(file) /\ CountConfig
    \/ \E b \in BOOLEAN : set_raise_on_use_before_init(b) /\ CountConfig

SpecConfig == Init /\ [][NextConfig]_vars

\* The calls of Next and init_database.
CountDatabase == calls < MaxDatabaseCalls /\ calls' = calls + 1

NextDatabase ==
    \/ \E a \in EngineArgs, db \in DBs : init_engine(a.uri, db, a.kwargs) /\ CountDatabase
    \/ clear_db /\ CountDatabase
    \/ \E db \in DBs : close_engine(db) /\ CountDatabase
    \/ \E db \in DBs : init_session_factory(db) /\ CountDatabase
    \/ \E db \in DBs, outcome \in CreateAllOutcomes :
           init_database(db, outcome) /\ CountDatabase
    \/ \E b \in BOOLEAN : set_raise_on_use_before_init(b) /\ CountDatabase
    \/ \E t \in MainThread, db \in DBs \cup {NoneDb}, tag \in {NoTag, DefaultBackendId} :
           ManagedSession_enter(t, db, tag) /\ CountDatabase
    \/ \E t \in MainThread : session_add(t, NoTag) /\ CountDatabase
    \/ \E t \in MainThread, how \in BodyEnds : ManagedSession_exit(t, how) /\ CountDatabase

SpecDatabase == Init /\ [][NextDatabase]_vars

(***************************************************************************)
(* Claims.  last is the call that led to the state, so a property of       *)
(* "what a call did" is a state predicate over last and the state, or an   *)
(* action property over the step that the call is.                         *)
(***************************************************************************)
IsExit == last.op = "exit" /\ last.result # NoSession

\* C1: withSession ends its session according to how the body exits: a body
\* that returns gets a commit and no rollback; a body that raises (a transient
\* connectivity error or any other error) gets a rollback, no commit, and the
\* same error re-raised.
C1_ExitFollowsBody ==
    IsExit =>
        IF last.arg = "return"
        THEN "commit" \in last.did /\ "rollback" \notin last.did
        ELSE /\ "rollback" \in last.did
             /\ "commit" \notin last.did
             /\ last.raised = last.arg

\* C2: every exit of withSession releases the thread-scoped session: after the
\* exit the Session has been closed by the factory and no factory keeps it for
\* the thread, and a withSession that enters with no enclosing withSession of
\* the same database gets a fresh Session.
EnclosingSessions(t, db) ==
    {stack[t][i].session : i \in {j \in 1..(Len(stack[t]) - 1) : stack[t][j].db = db}}

C2_ExitReleases ==
    /\ IsExit =>
          /\ last.result \in released
          /\ \A f \in FactoryIds : registry[f][last.t] # last.result
    /\ (/\ last.op = "enter"
        /\ last.result # NoSession
        /\ EnclosingSessions(last.t, last.db) = {}) => "Session" \in last.did

\* C3: at every moment there is at most one live Session per (thread,
\* database): the Sessions held by the thread's open withSession calls for the
\* database and the one its factory keeps for the thread are one Session.
LiveSessions(t, db) ==
    ({stack[t][i].session : i \in {j \in DOMAIN stack[t] : stack[t][j].db = db}}
     \cup (IF db \in Keys(THREAD_SAFE_SESSION_FACTORY)
           THEN {registry[Get(THREAD_SAFE_SESSION_FACTORY, db).id][t]}
           ELSE {}))
    \ {NoSession}

C3_OneLiveSession ==
    \A t \in Threads, db \in DBs : Cardinality(LiveSessions(t, db)) <= 1

\* C4: when a withSession exits via an error, none of the rows its body added
\* since its entry is committed.
C4_ErrorExitCommitsNothing ==
    (IsExit /\ last.arg # "return") => last.writes \cap committed = {}

\* C5: init_engine is idempotent per name: a call for a name that is not
\* registered creates one engine and returns it; a call for a registered name
\* creates nothing, changes nothing and returns the registered engine,
\* whatever uri and options it passes.
C5_RegisterIdempotent ==
    [][last'.op = "init_engine" =>
          IF last'.db \in Keys(ENGINE)
          THEN /\ ENGINE' = ENGINE
               /\ nextEngine' = nextEngine
               /\ last'.result = Get(ENGINE, last'.db).id
          ELSE /\ nextEngine' = nextEngine + 1
               /\ last'.result = nextEngine + 1
               /\ Get(ENGINE', last'.db).id = last'.result]_vars

\* A later call for a registered name, with another uri than the first.
C5_Witness ==
    /\ last.op = "init_engine"
    /\ "create_engine" \notin last.did
    /\ last.arg # Get(ENGINE, last.db).uri

\* C6 as claimed: lookup after register returns the handle register returned;
\* after dispose(name) lookup fails, isInitialized(name) is false,
\* ensureFactory(name) fails and withSession(name) fails.
NotRegistered(db) == get_engine(db).raised = "KeyError"

C6_DisposeInvalidates ==
    /\ last.op = "init_engine" =>
          get_engine(last.db) = [raised |-> "none", value |-> last.result]
    /\ (last.op = "close_engine" /\ "dispose" \in last.did) =>
          /\ NotRegistered(last.db)
          /\ ~is_database_initialized(last.db)
          /\ init_session_factory_raises(last.db)
          /\ ManagedSession_raises(last.db)

\* C6 as amended: the same, for as long as the name is not registered again,
\* except that withSession(name) fails only when raise_on_use_before_init is
\* set, and otherwise yields None and raises nothing.
C6_DisposeInvalidatesAmended ==
    /\ last.op = "init_engine" =>
          get_engine(last.db) = [raised |-> "none", value |-> last.result]
    /\ last.op = "close_engine" => NotRegistered(last.db)
    /\ \A db \in DBs :
          NotRegistered(db) =>
             /\ ~is_database_initialized(db)
             /\ init_session_factory_raises(db)
             /\ raise_on_use_before_init => ManagedSession_raises(db)
             /\ ~raise_on_use_before_init => ManagedSession_yields_none(db)

\* A name that had an engine and a session factory was disposed, in tolerant mode.
C6_Witness ==
    /\ last.op = "close_engine"
    /\ {"dispose", "pop_factory"} \subseteq last.did
    /\ ~raise_on_use_before_init

\* C7: clear_db disposes every registered handle: the pool of every engine
\* registered before the call is closed, and after the call no engine and no
\* session factory is registered.
C7_ClearDisposesAll ==
    [][last'.op = "clear_db" =>
          /\ \A i \in DOMAIN ENGINE : ENGINE[i].v.id \in disposed'
          /\ ENGINE' = EmptyDict
          /\ THREAD_SAFE_SESSION_FACTORY' = EmptyDict]_vars

\* C8: close_engine(name) for a name that is not registered raises nothing and
\* leaves the engines, their pools and the session factories as they were.
C8_DisposeUnknownIsNoOp ==
    [][(last'.op = "close_engine" /\ last'.db \notin Keys(ENGINE)) =>
          /\ last'.raised = "none"
          /\ ENGINE' = ENGINE
          /\ disposed' = disposed
          /\ THREAD_SAFE_SESSION_FACTORY' = THREAD_SAFE_SESSION_FACTORY]_vars

\* close_engine of an unregistered name while another name has an engine and a factory.
C8_Witness ==
    /\ last.op = "close_engine"
    /\ "dispose" \notin last.did
    /\ THREAD_SAFE_SESSION_FACTORY # EmptyDict

\* C9: ManagedSession for a database with no session factory raises ValueError
\* and yields nothing when raise_on_use_before_init is set; otherwise it yields
\* None and raises nothing.
C9_UseBeforeInit ==
    [][(last'.op = "enter" /\ ~HasFactory(last'.db)) =>
          IF raise_on_use_before_init
          THEN /\ last'.raised = "ValueError"
               /\ "yield" \notin last'.did
               /\ stack' = stack
          ELSE /\ last'.raised = "none"
               /\ "yield" \in last'.did
               /\ last'.result = NoSession
               /\ stack'[last'.t] = Append(stack[last'.t], Frame(last'.db, NoSession))]_vars

\* ManagedSession(db="...") of a missing database yielded None.
C9_Witness ==
    /\ last.op = "enter"
    /\ last.arg \in DBs
    /\ last.raised = "none"
    /\ last.result = NoSession
    /\ Top(last.t).session = NoSession

\* C10: _init_session_factory(name) raises ValueError and creates no factory
\* when name has no engine; when it has one, the call returns the factory of
\* the name, creating it only if the name has none, so that the name has
\* exactly one factory and a repeated call returns the same one.
C10_EnsureFactory ==
    [][last'.op = "_init_session_factory" =>
          IF last'.db \notin Keys(ENGINE)
          THEN /\ last'.raised = "ValueError"
               /\ THREAD_SAFE_SESSION_FACTORY' = THREAD_SAFE_SESSION_FACTORY
               /\ nextFactory' = nextFactory
          ELSE /\ last'.raised = "none"
               /\ last'.result = Get(THREAD_SAFE_SESSION_FACTORY', last'.db).id
               /\ Cardinality({i \in DOMAIN THREAD_SAFE_SESSION_FACTORY' :
                     THREAD_SAFE_SESSION_FACTORY'[i].k = last'.db}) = 1
               /\ last'.db \in Keys(THREAD_SAFE_SESSION_FACTORY) =>
                     /\ THREAD_SAFE_SESSION_FACTORY' = THREAD_SAFE_SESSION_FACTORY
                     /\ nextFactory' = nextFactory]_vars

\* A repeated call for a name that has its factory.
C10_Witness ==
    /\ last.op = "_init_session_factory"
    /\ last.raised = "none"
    /\ last.did = {}

\* C11 as claimed: a session factory is made lazily on first use: withSession
\* of a name that has an engine and no factory makes the factory and yields a
\* Session.
C11_LazyFactory ==
    [][(last'.op = "enter" /\ last'.arg \in Keys(ENGINE)
                           /\ last'.arg \notin Keys(THREAD_SAFE_SESSION_FACTORY)) =>
          /\ last'.arg \in Keys(THREAD_SAFE_SESSION_FACTORY')
          /\ last'.result # NoSession]_vars

\* C11 as amended: withSession makes no session factory: it yields a Session
\* exactly when the resolved name has its factory already, and otherwise takes
\* the not-initialized path, also when the name has an engine.
C11_NoLazyFactory ==
    [][last'.op = "enter" =>
          /\ THREAD_SAFE_SESSION_FACTORY' = THREAD_SAFE_SESSION_FACTORY
          /\ nextFactory' = nextFactory
          /\ last'.result # NoSession <=> last'.db \in Keys(THREAD_SAFE_SESSION_FACTORY)
          /\ last'.result = NoSession =>
                last'.raised = (IF raise_on_use_before_init THEN "ValueError" ELSE "none")]_vars

\* withSession of a name that has an engine and no session factory.
C11_Witness ==
    /\ last.op = "enter"
    /\ last.arg \in Keys(ENGINE)
    /\ last.arg \notin Keys(THREAD_SAFE_SESSION_FACTORY)

\* C20: withSession without a database name uses the first key of the factory
\* dict, which is the name whose current factory was made first (the only name
\* when there is one); with no factory it takes the not-initialized path.
FirstMade ==
    CHOOSE db \in Keys(THREAD_SAFE_SESSION_FACTORY) :
        \A other \in Keys(THREAD_SAFE_SESSION_FACTORY) :
            Get(THREAD_SAFE_SESSION_FACTORY, db).id <= Get(THREAD_SAFE_SESSION_FACTORY, other).id

C20_DefaultName ==
    [][(last'.op = "enter" /\ last'.arg = NoneDb) =>
          IF THREAD_SAFE_SESSION_FACTORY = EmptyDict
          THEN /\ last'.db = NoneDb
               /\ last'.result = NoSession
               /\ last'.raised = (IF raise_on_use_before_init THEN "ValueError" ELSE "none")
          ELSE /\ last'.db = FirstMade
               /\ last'.raised = "none"
               /\ last'.result # NoSession
               /\ stack'[last'.t][Len(stack'[last'.t])].db = FirstMade]_vars

\* withSession() with two factories, made in the order d2, d1.
C20_Witness ==
    /\ last.op = "enter"
    /\ last.arg = NoneDb
    /\ Len(THREAD_SAFE_SESSION_FACTORY) = 2
    /\ last.db = "d2"

C18_AutoRetry ==
    [][(last'.op = "exit" /\ last'.arg = "OperationalError" /\ last'.result # NoSession) =>
          /\ "retry" \in last'.did
          /\ last'.raised = "none"]_vars

\* A call in which an error arose, and a call whose error did not reach the caller.
Arose(c) ==
    \/ c.raised # "none"
    \/ c.op = "exit" /\ c.arg # "return"
    \/ c.op = "init_database" /\ c.arg # "ok"
    \/ c.op = "enter" /\ c.result = NoSession

Suppressed(c) == Arose(c) /\ c.raised = "none"

\* C19, as stated: the only call of the connection core that suppresses an
\* error is the tolerant-mode missing session; every other error, a
\* connectivity error inside init_database included, reaches the caller.
C19_OnlyTolerantPaths ==
    Suppressed(last) => (last.op = "enter" /\ ~raise_on_use_before_init)

\* C19, amended: the calls that suppress an error are exactly the
\* tolerant-mode missing session and init_database whose create_all raised
\* OperationalError, which leaves the engine registered and makes no session
\* factory; every other error reaches the caller.
C19_SuppressionPaths ==
    /\ Suppressed(last) <=>
          \/ last.op = "enter" /\ last.result = NoSession /\ ~raise_on_use_before_init
          \/ last.op = "init_database" /\ last.arg = "OperationalError"
    /\ (last.op = "init_database" /\ last.arg # "ok") =>
          /\ last.db \in Keys(ENGINE)
          /\ "scoped_session" \notin last.did

C19_Witness ==
    /\ last.op = "init_database"
    /\ last.arg = "OperationalError"
    /\ last.raised = "none"
    /\ last.db \notin Keys(THREAD_SAFE_SESSION_FACTORY)

\* A call that flushed a Session: session.flush(), or the commit of an exit.
Flushed(c) == c.op = "flush" \/ (c.op = "exit" /\ "commit" \in c.did)

\* C12: when the flushing thread has a backend id T, a flush gives T to every
\* new row of the Session whose backend_id is None and leaves the backend_id
\* of every row that has a non-empty one as it is; no call at all changes a
\* non-empty backend_id of a row.
C12_TagAtFlush ==
    [][/\ \A w \in WriteIds :
             Truthy(row[w].backend_id) => row'[w].backend_id = row[w].backend_id
       /\ (Flushed(last') /\ Truthy(get_backend_id(last'.t))) =>
             \A w \in New(last'.result) :
                 /\ row'[w].flushed
                 /\ row[w].backend_id = NoTag =>
                       row'[w].backend_id = get_backend_id(last'.t)]_vars

\* A commit under backend id B1 of a row added without backend_id and of a
\* row added with backend_id B2.
C12_Witness ==
    /\ last.op = "exit"
    /\ "commit" \in last.did
    /\ get_backend_id(last.t) = "B1"
    /\ \E w1, w2 \in last.writes :
          /\ row[w1].backend_id = "B1"
          /\ row[w2].backend_id = "B2"
          /\ {w1, w2} \subseteq committed

\* C13: a call of one thread leaves the backend id of every other thread as
\* it is, and a flush stamps rows of the flushing thread's Session only, and
\* with the flushing thread's backend id, never with the different backend
\* id of another thread.
C13_TagPerThread ==
    [][/\ \A u \in Threads :
             u # last'.t => get_backend_id(u)' = get_backend_id(u)
       /\ \A w \in WriteIds :
             (Flushed(last') /\ row'[w].backend_id # row[w].backend_id) =>
                 /\ w \in pending[last'.result]
                 /\ row'[w].backend_id = get_backend_id(last'.t)
                 /\ \A u \in Threads :
                       get_backend_id(u) # get_backend_id(last'.t) =>
                           row'[w].backend_id # get_backend_id(u)]_vars

\* Thread t1 committed a row stamped B1 while thread t2 is inside a session
\* with backend id B2.
C13_Witness ==
    /\ last.op = "exit"
    /\ last.t = "t1"
    /\ "commit" \in last.did
    /\ \E w \in last.writes : row[w].backend_id = "B1"
    /\ get_backend_id("t2") = "B2"
    /\ stack["t2"] # <<>>

\* C14: the backend id given to ManagedSession is the thread's backend id
\* for the duration of that session only: a thread that is in no session has
\* no backend id.
C14_TagForSessionDuration ==
    \A t \in Threads : stack[t] = <<>> => ~Truthy(get_backend_id(t))

\* The Sessions that the open generators of thread t hold.
Held(t) == {stack[t][i].session : i \in DOMAIN stack[t]} \ {NoSession}

\* C15: two threads never hold the same Session, and the exit of one thread
\* leaves the Sessions the other threads hold as they are: their pending
\* rows stay pending and uncommitted and they are not closed.
C15_SessionPerThread ==
    [][/\ \A t, u \in Threads : t # u => Held(t)' \cap Held(u)' = {}
       /\ last'.op = "exit" =>
             \A u \in Threads \ {last'.t} : \A s \in Held(u) :
                 /\ pending'[s] = pending[s]
                 /\ pending[s] \cap committed' = pending[s] \cap committed
                 /\ s \in released' <=> s \in released]_vars

\* Both threads were inside ManagedSession of the same database, thread t2
\* with a pending row, when thread t1 left with commit and remove.
C15_Witness ==
    /\ last.op = "exit"
    /\ last.t = "t1"
    /\ last.result # NoSession
    /\ {"commit", "remove"} \subseteq last.did
    /\ stack["t2"] # <<>>
    /\ Top("t2").db = last.db
    /\ Top("t2").session \notin {NoSession, last.result}
    /\ pending[Top("t2").session] # {}

\* The engines that are values of ENGINE, and the engines made so far.
Registered == {ENGINE[i].v.id : i \in DOMAIN ENGINE}

Created == 1..nextEngine

\* C16: with init_engine and close_engine called by two threads at the same
\* time, every engine that was created is in ENGINE or was disposed, and two
\* threads that called init_engine for the same name, nothing having been
\* disposed, got the same engine.
C16_RegistryConcurrencySafe ==
    /\ \A e \in Created : e \in Registered \/ e \in disposed
    /\ \A t, u \in Threads :
          (/\ pc[t].got # 0
           /\ pc[u].got # 0
           /\ pc[t].gotDb = pc[u].gotDb
           /\ disposed = {}) => pc[t].got = pc[u].got

\* C21: is_database_initialized(db) is false at the start, true after a
\* _init_session_factory(db) that did not raise, false after close_engine(db)
\* and, for every db, after clear_db, and no other call changes it;
\* is_session_factory_initialized() is true exactly when it is true of a name.
C21_IsInitialized ==
    [][/\ calls = 0 => \A db \in DBs : ~is_database_initialized(db)
       /\ \A db \in DBs :
             IF last'.op = "_init_session_factory" /\ last'.db = db
             THEN is_database_initialized(db)' <=> last'.raised = "none"
             ELSE IF last'.op = "clear_db" \/ (last'.op = "close_engine" /\ last'.db = db)
             THEN ~is_database_initialized(db)'
             ELSE is_database_initialized(db)' <=> is_database_initialized(db)
       /\ is_session_factory_initialized' <=>
             \E db \in DBs : is_database_initialized(db)']_vars

\* close_engine removed the factory of one name while another name keeps its own.
C21_Witness ==
    /\ last.op = "close_engine"
    /\ "pop_factory" \in last.did
    /\ ~is_database_initialized(last.db)
    /\ is_session_factory_initialized

\* C28: create_notify_trigger with an event outside INSERT, UPDATE, DELETE
\* raises InvalidEvent, with valid events and a column that is not a column
\* of the table it raises InvalidColumn, and a call with any invalid value,
\* mixed with valid ones or not, executes no DDL and leaves the triggers of
\* the table exactly as they were.
C28_RejectsBeforeDDL ==
    [][last'.op = "create_notify_trigger" =>
          /\ InvalidEvents(last'.events) # {} => last'.raised = "InvalidEvent"
          /\ (InvalidEvents(last'.events) = {} /\ InvalidColumns(last'.columns) # {}) =>
                last'.raised = "InvalidColumn"
          /\ (InvalidEvents(last'.events) # {} \/ InvalidColumns(last'.columns) # {}) =>
                /\ last'.raised \in {"InvalidEvent", "InvalidColumn"}
                /\ last'.did = {}
                /\ triggers' = triggers]_vars

\* A call with valid and invalid events mixed was rejected on a table that
\* has some of the triggers already.
C28_Witness ==
    /\ last.op = "create_notify_trigger"
    /\ last.raised = "InvalidEvent"
    /\ last.events \cap ValidEvents # {}
    /\ Cardinality(TriggersOn(Table)) = 2

\* C29: create_notify_trigger with the default events and valid columns
\* raises nothing, whatever triggers the table had, and leaves exactly the
\* three triggers <table>_notify_trigger_insert, _update and _delete, each
\* as this call describes it.
C29_CreateIdempotent ==
    [][(/\ last'.op = "create_notify_trigger"
        /\ last'.events = ValidEvents
        /\ InvalidColumns(last'.columns) = {}) =>
          /\ last'.raised = "none"
          /\ Cardinality(On(triggers', last'.db)) = 3
          /\ {tr.name : tr \in On(triggers', last'.db)} =
                {"test_table_notify_trigger_insert", "test_table_notify_trigger_update",
                 "test_table_notify_trigger_delete"}
          /\ \A tr \in On(triggers', last'.db) : tr.columns = Columns(last'.columns)]_vars

\* The second of two calls with the default events replaced the three triggers.
C29_Witness ==
    /\ last.op = "create_notify_trigger"
    /\ last.events = ValidEvents
    /\ last.raised = "none"
    /\ {"DROP test_table_notify_trigger_insert", "DROP test_table_notify_trigger_update",
         "DROP test_table_notify_trigger_delete"} \subseteq last.did
    /\ Cardinality(TriggersOn(Table)) = 3

\* C30: drop_notify_trigger raises nothing and leaves no trigger on the
\* table, whichever of the three triggers the table had, none included.
C30_DropLeavesNone ==
    [][last'.op = "drop_notify_trigger" =>
          /\ last'.raised = "none"
          /\ On(triggers', last'.db) = {}
          /\ Cardinality(last'.did) = Cardinality(TriggersOn(last'.db))]_vars

\* A drop on a table that had two of the three triggers.
C30_Witness ==
    /\ last.op = "drop_notify_trigger"
    /\ Cardinality(last.did) = 2
    /\ TriggersOn(Table) = {}

\* The callback cb of listener l was called with notification n.
Delivered(l, cb, n) ==
    \E i \in DOMAIN delivered :
        delivered[i].listener = l /\ delivered[i].callback = cb /\ delivered[i].note = n

\* C22: a listener is Created, Listening or Stopped and only moves from
\* Created to Listening and from Listening to Stopped: start() on a Created
\* listener raises nothing and makes it Listening, start() on any other
\* listener raises AlreadyStarted and leaves the listener as it was, and no
\* step takes a Stopped listener anywhere else.
C22_StateMachine ==
    [][\A l \in ListenerIds :
          /\ listeners'[l].state \in {"None", "Created", "Listening", "Stopped"}
          /\ listeners'[l].state # listeners[l].state =>
                <<listeners[l].state, listeners'[l].state>> \in
                    {<<"None", "Created">>, <<"Created", "Listening">>,
                     <<"Listening", "Stopped">>}
          /\ (last'.op = "start" /\ last'.result = l) =>
                IF listeners[l].state = "Created"
                THEN last'.raised = "none" /\ listeners'[l].state = "Listening"
                ELSE last'.raised = "AlreadyStarted" /\ listeners'[l] = listeners[l]]_vars

\* start() was refused on a listener that had been started and stopped.
C22_Witness ==
    /\ last.op = "start"
    /\ last.raised = "AlreadyStarted"
    /\ listeners[last.result].state = "Stopped"

\* C23: a stop() on a Listening listener returns only when the loop of the
\* listener has exited, and then the raw connection is closed and the
\* listener Stopped;
\* stop() on a Stopped listener raises nothing, changes nothing and does not
\* wait; and every thread that waits in stop() gets out of it.
C23_Stop ==
    /\ [][\A t \in Threads, l \in ListenerIds :
             /\ (joining[t] = l /\ joining'[t] = 0) =>
                   /\ listeners'[l].loop = "exited"
                   /\ listeners'[l].conn = "closed"
                   /\ listeners'[l].state = "Stopped"
             /\ (/\ last'.op = "stop" /\ last'.t = t /\ last'.result = l
                 /\ joining[t] = 0 /\ listeners[l].state = "Stopped") =>
                   /\ last'.raised = "none"
                   /\ listeners' = listeners
                   /\ joining' = joining]_vars
    /\ \A t \in Threads : (joining[t] # 0) ~> (joining[t] = 0)

\* Thread t2 called stop() on a listener that a stop() had stopped before.
C23_Witness ==
    /\ last.op = "stop"
    /\ last.t = "t2"
    /\ last.did = {}
    /\ listeners[last.result].state = "Stopped"
    /\ listeners[last.result].loop = "exited"
    /\ listeners[last.result].conn = "closed"

\* C24: the calls a listener has made are in the order of the notifications
\* (their ids count the emissions), the calls for one notification are in
\* the order the callbacks were registered (their ids count the
\* registrations), and while callbacks of a notification are still to be
\* called no later notification has been delivered.
C24_DeliveryOrder ==
    /\ \A i, j \in DOMAIN delivered :
          (i < j /\ delivered[i].listener = delivered[j].listener) =>
             \/ delivered[i].note < delivered[j].note
             \/ /\ delivered[i].note = delivered[j].note
                /\ delivered[i].callback < delivered[j].callback
    /\ \A l \in ListenerIds :
          listeners[l].note # NoNote =>
             /\ listeners[l].todo # <<>>
             /\ \A i \in DOMAIN delivered :
                   delivered[i].listener = l => delivered[i].note <= listeners[l].note.id
             /\ \A i \in DOMAIN listeners[l].inbox :
                   listeners[l].inbox[i].id > listeners[l].note.id

\* Two notifications were each delivered to two callbacks.
C24_Witness ==
    /\ Len(delivered) = 4
    /\ delivered[1].note = delivered[2].note
    /\ delivered[3].note = delivered[4].note
    /\ delivered[2].note # delivered[3].note
    /\ delivered[1].callback # delivered[2].callback

\* The well-formed notification n waits on the connection of listener l,
\* which has callback cb on its channel.
Waiting(l, cb, n) ==
    \E i \in DOMAIN listeners[l].inbox :
        /\ listeners[l].inbox[i].id = n
        /\ listeners[l].inbox[i].ok
        /\ cb \in Registrations(listeners[l].callbacks[listeners[l].inbox[i].channel])

\* C25: an INSERT on a table that has the insert trigger emits exactly one
\* notification; no callback is called twice with one notification; what a
\* callback gets is the table, the action INSERT and the inserted row; and
\* a notification that waits on a Listening listener is delivered to every
\* callback of its channel, unless the listener leaves Listening first.
C25_ExactlyOnce ==
    /\ [][(/\ last'.op = "insert"
           /\ \E tr \in TriggersOn(last'.db) : tr.event = "INSERT") =>
             /\ last'.result = 1
             /\ nextNote' = nextNote + 1]_vars
    /\ [](\A i, j \in DOMAIN delivered :
             (/\ delivered[i].listener = delivered[j].listener
              /\ delivered[i].callback = delivered[j].callback
              /\ delivered[i].note = delivered[j].note) => i = j)
    /\ [](\A i \in DOMAIN delivered :
             delivered[i].notification =
                [table |-> Table, action |-> "INSERT", data |-> TestRow])
    /\ \A l \in ListenerIds, cb \in CallbackIds, n \in NoteIds :
          (Waiting(l, cb, n) /\ listeners[l].state = "Listening") ~>
             (Delivered(l, cb, n) \/ listeners[l].state # "Listening")

\* One INSERT was made and both callbacks of the listener, which is still
\* listening, have been called with it.
C25_Witness ==
    /\ nextNote = 1
    /\ Len(delivered) = 2
    /\ \A cb \in 1..2 : Delivered(1, cb, 1)
    /\ listeners[1].state = "Listening"
    /\ delivered[1].notification.data.name = "test"
    /\ delivered[1].notification.data.value = 100

\* The well-formed notification n waits on the connection of listener l
\* behind one that does not decode.
WaitingBehindMalformed(l, cb, n) ==
    /\ Waiting(l, cb, n)
    /\ \E i, j \in DOMAIN listeners[l].inbox :
          /\ i < j
          /\ ~listeners[l].inbox[i].ok
          /\ listeners[l].inbox[j].id = n

\* C26: the step that takes a notification that does not decode calls no
\* callback, leaves the loop running and the listener in the state it was
\* in; no callback is ever called with such a notification; and a
\* well-formed notification behind one that does not decode is delivered
\* to every callback of its channel, unless the listener leaves Listening
\* first.
C26_MalformedDropped ==
    /\ [][\A l \in ListenerIds :
             (/\ last'.op = "loop_take" /\ last'.result = l
              /\ "drop" \in last'.did) =>
                /\ delivered' = delivered
                /\ listeners'[l].note = NoNote
                /\ listeners'[l].loop = "running"
                /\ listeners'[l].state = listeners[l].state
                /\ listeners'[l].conn = "open"]_vars
    /\ [](\A i \in DOMAIN delivered : delivered[i].notification.action # "-")
    /\ \A l \in ListenerIds, cb \in CallbackIds, n \in NoteIds :
          (WaitingBehindMalformed(l, cb, n) /\ listeners[l].state = "Listening") ~>
             (Delivered(l, cb, n) \/ listeners[l].state # "Listening")

\* A notification that does not decode was dropped, and the INSERT emitted
\* after it has been delivered by the listener, which is still listening.
C26_Witness ==
    /\ last.op = "loop_invoke"
    /\ Delivered(1, 1, 2)
    /\ 1 \in listeners[1].done
    /\ ~Delivered(1, 1, 1)
    /\ listeners[1].state = "Listening"

C31_DefaultsAllTrue ==
    [][(last'.op = "load_config" /\ environ = NoEnviron) =>
          /\ pg_config'.do_publish_db
          /\ pg_config'.use_local_db_only
          /\ raise_on_use_before_init']_vars

\* C32: with every call taken as one step, each database name that has a
\* session factory has a registered engine.
C32_FactoryKeysWithinEngineKeys ==
    Keys(THREAD_SAFE_SESSION_FACTORY) \subseteq Keys(ENGINE)

\* close_engine has removed the engine and the factory of one name while
\* another name keeps its factory.
C32_Witness ==
    /\ last.op = "close_engine"
    /\ "pop_factory" \in last.did
    /\ Keys(THREAD_SAFE_SESSION_FACTORY) # {}
    /\ last.db \notin Keys(ENGINE)

\* C33: with _init_session_factory and close_engine called by two threads
\* at the same time, once every call has ended each database name that has
\* a session factory has a registered engine.
C33_NoFactoryWithoutEngine ==
    (\A t \in Threads : pc[t].at = "idle") =>
        \A db \in Keys(THREAD_SAFE_SESSION_FACTORY) : db \in Keys(ENGINE)

\* The factories that are in THREAD_SAFE_SESSION_FACTORY.
InFactoryMap == {THREAD_SAFE_SESSION_FACTORY[i].v.id : i \in DOMAIN THREAD_SAFE_SESSION_FACTORY}

\* The session of the innermost ManagedSession of thread t is held by a
\* factory that close_engine or clear_db has taken out of the map.
Orphaned(t) ==
    /\ Len(stack[t]) > 0
    /\ Top(t).session # NoSession
    /\ \E f \in FactoryIds \ InFactoryMap : registry[f][Scope(t)] = Top(t).session

\* C34, as stated: when close_engine(db) or clear_db() has removed the
\* factory during the body, the exit commits (or rolls back), then raises
\* the lookup error instead of what the body raised, and does not release
\* the session.
C34_ExitAfterClose ==
    [][\A t \in Threads :
          (Orphaned(t) /\ last'.op = "exit" /\ last'.t = t) =>
             /\ last'.did = {IF last'.arg = "return" THEN "commit" ELSE "rollback"}
             /\ last'.raised = "KeyError"
             /\ Top(t).session \notin released'
             /\ \E f \in FactoryIds : registry'[f][Scope(t)] = Top(t).session]_vars

\* C34, amended: when close_engine(db) or clear_db() has removed the factory
\* during the body, the exit commits (or rolls back) and does not release
\* the session; it raises the lookup error instead of what the body raised
\* unless db has a session factory again, and then it ends as the body did.
C34_ExitAfterCloseAmended ==
    [][\A t \in Threads :
          (Orphaned(t) /\ last'.op = "exit" /\ last'.t = t) =>
             /\ (IF last'.arg = "return" THEN "commit" ELSE "rollback") \in last'.did
             /\ committed' = IF last'.arg = "return"
                             THEN committed \cup pending[Top(t).session]
                             ELSE committed
             /\ pending'[Top(t).session] = {}
             /\ Top(t).session \notin released'
             /\ \E f \in FactoryIds : registry'[f][Scope(t)] = Top(t).session
             /\ IF HasFactory(Top(t).db)
                THEN last'.raised = Raised(last'.arg) /\ "remove" \in last'.did
                ELSE last'.raised = "KeyError" /\ "remove" \notin last'.did]_vars

\* A body that raised OperationalError after close_engine of its database:
\* the caller got the KeyError, the rows were rolled back and the session
\* is still in the registry of the removed factory.
C34_Witness ==
    /\ last.op = "exit"
    /\ last.arg = "OperationalError"
    /\ last.raised = "KeyError"
    /\ last.did = {"rollback"}
    /\ last.writes # {}
    /\ last.result \notin released
    /\ \E f \in FactoryIds \ InFactoryMap : registry[f][last.t] = last.result

\* The innermost ManagedSession of thread t is nested in one of the same
\* database and has the same Session, which the factory of the database
\* keeps for the thread.
Reentered(t) ==
    /\ Len(stack[t]) >= 2
    /\ Top(t).session # NoSession
    /\ stack[t][Len(stack[t]) - 1] = [stack[t][Len(stack[t]) - 1] EXCEPT
                                         !.db = Top(t).db, !.session = Top(t).session]
    /\ HasFactory(Top(t).db)
    /\ registry[Get(THREAD_SAFE_SESSION_FACTORY, Top(t).db).id][Scope(t)] = Top(t).session

\* C35: the normal exit of a ManagedSession re-entered for the same thread
\* and database commits the rows the enclosing body added to the shared
\* Session and takes the Session out of the thread's scope, the enclosing
\* ManagedSession staying open with it; and a ManagedSession entered for a
\* database while an open one of the thread holds a released Session of
\* that database never gets that one: it gets a Session made for it, or the
\* one made for an entry after the release.
C35_NestedExit ==
    [][\A t \in Threads :
          /\ (Reentered(t) /\ last'.op = "exit" /\ last'.t = t /\ last'.arg = "return") =>
                LET outer == stack[t][Len(stack[t]) - 1] IN
                /\ outer.writes \subseteq committed'
                /\ Top(t).writes \subseteq committed'
                /\ "commit" \in last'.did
                /\ Top(t).session \in released'
                /\ \A f \in FactoryIds : registry'[f][Scope(t)] # Top(t).session
                /\ Len(stack'[t]) = Len(stack[t]) - 1
                /\ stack'[t][Len(stack'[t])] = outer
          /\ (last'.op = "enter" /\ last'.t = t /\ last'.result # NoSession) =>
                \A i \in DOMAIN stack[t] :
                   (stack[t][i].db = last'.db /\ stack[t][i].session \in released) =>
                      /\ last'.result # stack[t][i].session
                      /\ last'.result \notin released
                      /\ "Session" \in last'.did \/ last'.result \in Held(t)]_vars

\* The enclosing body added a row, a nested ManagedSession of the same
\* database exited, and a further one was entered: the row is committed,
\* the enclosing Session is released and the new one is another Session.
C35_Witness ==
    /\ last.op = "enter"
    /\ Len(stack["t1"]) = 2
    /\ stack["t1"][1].db = stack["t1"][2].db
    /\ stack["t1"][1].writes # {}
    /\ stack["t1"][1].writes \subseteq committed
    /\ stack["t1"][1].session \in released
    /\ stack["t1"][2].session \notin {NoSession, stack["t1"][1].session}

\* C36: an entry of ManagedSession with backend_id None or the empty string
\* leaves the backend id of the thread, and of every thread, as it is,
\* whoever set it and whether or not the ManagedSession that set it has
\* exited; and a flush in a thread whose backend id is T, however the
\* Session was entered, stamps the new rows that have none with T.
C36_NoTagKeepsAmbient ==
    [][/\ \A t \in Threads, tag \in {NoTag, EmptyTag} :
             (last'.op = "enter" /\ last'.t = t /\ ManagedSession_enter(t, TagDb, tag)) =>
                /\ thread_local' = thread_local
                /\ get_backend_id(t)' = get_backend_id(t)
                /\ "set_backend_id" \notin last'.did
       /\ \A t \in Threads :
             (/\ Flushed(last') /\ last'.t = t
              /\ Truthy(get_backend_id(t))) =>
                \A w \in New(last'.result) :
                   row[w].backend_id = NoTag => row'[w].backend_id = get_backend_id(t)']_vars

\* A ManagedSession with backend id B1 has exited and the same thread has
\* just entered one with no backend id: its backend id is still B1.
C36_Witness ==
    /\ last.op = "enter"
    /\ {"Session", "yield"} \subseteq last.did
    /\ "set_backend_id" \notin last.did
    /\ Len(stack[last.t]) = 1
    /\ get_backend_id(last.t) = "B1"
    /\ released # {}
    /\ \A u \in Threads \ {last.t} : stack[u] = <<>> /\ get_backend_id(u) = NoTag

\* C37: the before-flush listener changes nothing but the backend_id of the
\* rows that the flushing Session is about to write and that have none, and
\* only when the flushing thread has a backend id: every other row, every
\* row with a backend_id, the empty string included, and the other field of
\* every row come out of the listener as they went in, and no call but a
\* flush changes the backend_id of a row that exists.
C37_HookChangesOnlyUntagged ==
    [][\A w \in 1..nextWrite :
          LET hooked == receive_before_flush(last'.t, New(last'.result))[w] IN
          /\ row'[w].backend_id # row[w].backend_id =>
                /\ Flushed(last')
                /\ w \in New(last'.result)
                /\ row[w].backend_id = NoTag
                /\ Truthy(get_backend_id(last'.t))
          /\ Flushed(last') =>
                /\ hooked.flushed = row[w].flushed
                /\ row'[w].backend_id = hooked.backend_id
                /\ w \notin New(last'.result) => row'[w] = row[w]
                /\ row[w].backend_id # NoTag => hooked = row[w]
                /\ ~Truthy(get_backend_id(last'.t)) => hooked = row[w]]_vars

\* A flush under backend id B1 of a row added with the empty string as its
\* backend_id, while the Session of another thread holds an unflushed row
\* without backend_id: both rows keep what they had.
C37_Witness ==
    /\ last.op = "flush"
    /\ get_backend_id(last.t) = "B1"
    /\ \E w \in last.writes : row[w] = [backend_id |-> EmptyTag, flushed |-> TRUE]
    /\ \E u \in Threads \ {last.t} :
          /\ stack[u] # <<>>
          /\ \E w \in pending[Top(u).session] :
                row[w] = [backend_id |-> NoTag, flushed |-> FALSE]

\* C38: a ManagedSession of a name without session factory, entered while
\* raise_on_use_before_init is off, yields None once and does nothing else,
\* at its entry and at its exit: no commit, no rollback, no remove, no
\* set_backend_id whatever backend_id it was given, the engine map, the
\* factory map, the Sessions and the rows as they were; its exit ends as
\* the body did.
C38_TolerantBranchNoEffects ==
    [][LET c == last' IN
       /\ (c.op = "enter" /\ ManagedSession_yields_none(c.arg)) =>
             /\ c.raised = "none"
             /\ c.result = NoSession
       /\ (c.op = "enter" /\ c.raised = "none" /\ c.result = NoSession) =>
             /\ ManagedSession_yields_none(c.arg)
             /\ c.did = {"yield"}
             /\ stack' = [stack EXCEPT ![c.t] = Append(@, Frame(c.db, NoSession))]
             /\ UNCHANGED <<ENGINE, THREAD_SAFE_SESSION_FACTORY, thread_local, disposed,
                            registry, pending, committed, released, row,
                            nextSession, nextFactory>>
       /\ (c.op = "exit" /\ c.result = NoSession) =>
             /\ c.did = {}
             /\ c.raised = Raised(c.arg)
             /\ stack' = Pop(c.t)
             /\ UNCHANGED <<ENGINE, THREAD_SAFE_SESSION_FACTORY, thread_local, disposed,
                            registry, pending, committed, released, row,
                            nextSession, nextFactory>>]_vars

\* The body of a ManagedSession that was given None has returned, while
\* another name has an engine and a session factory.
C38_Witness ==
    /\ last.op = "exit"
    /\ last.result = NoSession
    /\ last.raised = "none"
    /\ ~raise_on_use_before_init
    /\ last.db \notin Keys(THREAD_SAFE_SESSION_FACTORY)
    /\ ENGINE # EmptyDict
    /\ THREAD_SAFE_SESSION_FACTORY # EmptyDict
    /\ stack[last.t] = <<>>

====
